---- MODULE Spec2Model ----
(***************************************************************************)
(* Client-side image compression pipeline of koji (Henka).                 *)
(*                                                                         *)
(* One compress call is followed from its entry to its settlement, in each *)
(* of the five entry points:                                               *)
(*   host "wasm"   : compressFromUrl / compressFromBlob of compress.ts     *)
(*   host "canvas" : compressFromUrl / compressFromBlob of compress-native *)
(*   host "worker" : processImage of worker.ts                             *)
(* A step of the model is one synchronous segment of the async function:   *)
(* the code between two awaits.  What fetch, the decoders, the image       *)
(* loader and the encoders answer is chosen by the environment.            *)
(*                                                                         *)
(* Specifications:                                                         *)
(*   Spec           : one compress call, in any of the five entry points   *)
(*   SpecPure       : detectFormat and estimateSize, both copies of each,  *)
(*                    called on arguments from bounded sets                *)
(*   SpecLoader     : the lazy codec loaders of the adapters under several *)
(*                    callers                                              *)
(*   SpecConcurrent : two calls in flight at once (compressFromBlob of     *)
(*                    compress.ts, requests to the worker)                 *)
(*   SpecHook       : the useCompression hook under ExportPanel: settings  *)
(*                    change and downloads start while calls are in flight *)
(*   SpecLimiter    : rateLimit of the export route under a clock that     *)
(*                    never goes back                                      *)
(***************************************************************************)
EXTENDS Integers, Sequences, FiniteSets, TLC

(***************************************************************************)
(* Strings the code inspects (media types) are sequences of characters, so *)
(* that toLowerCase and includes are computed and not assumed.             *)
(***************************************************************************)
T_jpeg == <<"j", "p", "e", "g">>
T_jpg  == <<"j", "p", "g">>
T_png  == <<"p", "n", "g">>
T_webp == <<"w", "e", "b", "p">>
T_avif == <<"a", "v", "i", "f">>
T_image == <<"i", "m", "a", "g", "e", "/">>

ImageFormat == {"jpeg", "png", "webp", "avif"}
CompressionMode == {"smart", "maximum", "web", "custom"}

\* String.prototype.toLowerCase on the characters the media types use
LowerChar(c) ==
  CASE c = "A" -> "a" [] c = "B" -> "b" [] c = "E" -> "e" [] c = "F" -> "f"
    [] c = "G" -> "g" [] c = "I" -> "i" [] c = "J" -> "j" [] c = "M" -> "m"
    [] c = "N" -> "n" [] c = "P" -> "p" [] c = "V" -> "v" [] c = "W" -> "w"
    [] OTHER -> c

toLowerCase(s) == [i \in 1..Len(s) |-> LowerChar(s[i])]

\* String.prototype.includes
includes(s, t) ==
  \E i \in 0..(Len(s) - Len(t)) : SubSeq(s, i + 1, i + Len(t)) = t

(***************************************************************************)
(* codecs/types.ts: the quality policy tables                              *)
(***************************************************************************)
SMART_QUALITY == [jpeg |-> 82, png |-> 100, webp |-> 80, avif |-> 63]

MAXIMUM_QUALITY == [jpeg |-> 60, png |-> 70, webp |-> 55, avif |-> 40]

WEB_QUALITY == [jpeg |-> 75, png |-> 85, webp |-> 72, avif |-> 55]

AVIF_EFFORT == 4

\* compress.ts getQuality
getQuality(mode, format, customQuality) ==
  CASE mode = "smart"   -> SMART_QUALITY[format]
    [] mode = "maximum" -> MAXIMUM_QUALITY[format]
    [] mode = "web"     -> WEB_QUALITY[format]
    [] mode = "custom"  -> customQuality

\* compress-native getQuality
getQualityNative(mode, format, customQuality) ==
  CASE mode = "smart"   -> SMART_QUALITY[format]
    [] mode = "maximum" -> MAXIMUM_QUALITY[format]
    [] mode = "web"     -> WEB_QUALITY[format]
    [] mode = "custom"  -> customQuality

\* getQualityForSettings with the "web" case falling through to "custom"
getQualityForSettingsFallthrough(settings) ==
  CASE settings.mode = "smart"   -> SMART_QUALITY[settings.format]
    [] settings.mode = "maximum" -> MAXIMUM_QUALITY[settings.format]
    [] settings.mode = "web"     -> settings.quality
    [] settings.mode = "custom"  -> settings.quality

\* worker.ts getQualityForSettings; settings = [mode, quality, format]
getQualityForSettings(settings) ==
  CASE settings.mode = "smart"   -> SMART_QUALITY[settings.format]
    [] settings.mode = "maximum" -> MAXIMUM_QUALITY[settings.format]
    [] settings.mode = "web"     -> WEB_QUALITY[settings.format]
    [] settings.mode = "custom"  -> settings.quality

Null == "null"

\* compress.ts detectFormat, on the blob's declared type
detectFormat(type) ==
  LET t == toLowerCase(type) IN
  IF includes(t, T_jpeg) \/ includes(t, T_jpg) THEN "jpeg"
  ELSE IF includes(t, T_png) THEN "png"
  ELSE IF includes(t, T_webp) THEN "webp"
  ELSE IF includes(t, T_avif) THEN "avif"
  ELSE Null

\* compress.ts and compress-native getMimeType
getMimeType(format) ==
  CASE format = "jpeg" -> T_image \o T_jpeg
    [] format = "png"  -> T_image \o T_png
    [] format = "webp" -> T_image \o T_webp
    [] format = "avif" -> T_image \o T_avif

(***************************************************************************)
(* JavaScript Number arithmetic (IEEE-754 binary64), as far as the savings *)
(* computation uses it: integer / integer, double * 100, Math.round.       *)
(* A double is [s, m, e]: sign s in {-1, 0, 1}, m the 53 significand bits  *)
(* (most significant first, m[1] = 1), e the exponent of the last bit, so  *)
(* that |x| = (m read as a binary number) * 2^e.  Zero is s = 0.           *)
(***************************************************************************)
SignificandBits == 53

FlZero == [s |-> 0, m |-> <<>>, e |-> 0]

\* the natural number a sequence of bits spells, most significant first
RECURSIVE BitsToNat(_)
BitsToNat(bits) ==
  IF Len(bits) = 0 THEN 0
  ELSE IF Len(bits) = 1 THEN bits[1]
  ELSE LET h == Len(bits) \div 2
       IN  BitsToNat(SubSeq(bits, 1, h)) * 2 ^ (Len(bits) - h)
             + BitsToNat(SubSeq(bits, h + 1, Len(bits)))

\* bits + 1: one bit longer when every bit was 1
BitsInc(bits) ==
  IF \A i \in 1..Len(bits) : bits[i] = 1
  THEN <<1>> \o [i \in 1..Len(bits) |-> 0]
  ELSE LET p == CHOOSE i \in 1..Len(bits) :
                  bits[i] = 0 /\ \A j \in (i + 1)..Len(bits) : bits[j] = 1
       IN  [i \in 1..Len(bits) |-> IF i < p THEN bits[i] ELSE IF i = p THEN 1 ELSE 0]

\* base-256 digits to bits and back (the bits a multiple of 8 long)
DigitsToBits(digits) ==
  [i \in 1..(8 * Len(digits)) |->
     (digits[((i - 1) \div 8) + 1] \div 2 ^ (7 - ((i - 1) % 8))) % 2]

BitsToDigits(bits) ==
  [j \in 1..(Len(bits) \div 8) |-> BitsToNat(SubSeq(bits, 8 * j - 7, 8 * j))]

\* without the leading zeros; bits holds a 1
StripZeros(bits) ==
  LET p == CHOOSE i \in 1..Len(bits) : bits[i] = 1 /\ \A j \in 1..(i - 1) : bits[j] = 0
  IN  SubSeq(bits, p, Len(bits))

\* round to nearest, ties to even: bits (leading 1, at least 54 of them) with
\* last-bit exponent e, plus a flag telling that nonzero digits follow
RoundNearestEven(s, bits, more, e) ==
  LET L     == Len(bits)
      keep  == SubSeq(bits, 1, SignificandBits)
      guard == bits[SignificandBits + 1]
      rest  == more \/ \E i \in (SignificandBits + 2)..L : bits[i] = 1
      up    == guard = 1 /\ (rest \/ keep[SignificandBits] = 1)
      k1    == IF up THEN BitsInc(keep) ELSE keep
      e1    == e + (L - SignificandBits)
  IN  IF Len(k1) > SignificandBits
      THEN [s |-> s, m |-> SubSeq(k1, 1, SignificandBits), e |-> e1 + 1]
      ELSE [s |-> s, m |-> k1, e |-> e1]

\* n base-256 digits of the expansion of r/d (r < d < 2^23), then the remainder
RECURSIVE LongDiv(_, _, _, _)
LongDiv(r, d, n, acc) ==
  IF n = 0 THEN [digits |-> acc, rem |-> r]
  ELSE LongDiv((256 * r) % d, d, n - 1, Append(acc, (256 * r) \div d))

\* the Number a / b for integers a and b, b > 0: the quotient is scaled into
\* [1, 2), its bits come from long division, and the result is rounded
FlDiv(a, b) ==
  IF a = 0 THEN FlZero
  ELSE LET s   == IF a < 0 THEN -1 ELSE 1
           abs == IF a < 0 THEN -a ELSE a
           j   == IF abs < b
                  THEN CHOOSE i \in 1..30 : abs * 2 ^ i >= b /\ abs * 2 ^ (i - 1) < b
                  ELSE CHOOSE i \in 0..30 : abs < b * 2 ^ (i + 1) /\ abs >= b * 2 ^ i
           n   == IF abs < b THEN abs * 2 ^ j ELSE abs
           d   == IF abs < b THEN b ELSE b * 2 ^ j
           e0  == IF abs < b THEN -j ELSE j
           q   == LongDiv(n - d, d, 7, <<>>)
       IN  RoundNearestEven(s, <<1>> \o DigitsToBits(q.digits), q.rem > 0, e0 - 56)

\* digits * k for a natural k < 2^16, by schoolbook multiplication from the
\* last digit
RECURSIVE DigitsTimes(_, _, _, _)
DigitsTimes(digits, k, carry, acc) ==
  IF Len(digits) = 0
  THEN IF carry = 0 THEN acc
       ELSE DigitsTimes(digits, k, carry \div 256, <<carry % 256>> \o acc)
  ELSE LET t == k * digits[Len(digits)] + carry
       IN  DigitsTimes(SubSeq(digits, 1, Len(digits) - 1), k, t \div 256,
                       <<t % 256>> \o acc)

\* the Number x * k for a double x and a natural k, 2 <= k < 2^16 (k = 100 in
\* the code): the exact product, rounded
FlTimes(x, k) ==
  IF x.s = 0 THEN FlZero
  ELSE LET padded  == <<0, 0, 0>> \o x.m
           product == DigitsTimes(BitsToDigits(padded), k, 0, <<>>)
       IN  RoundNearestEven(x.s, StripZeros(DigitsToBits(product)), FALSE, x.e)

\* Math.round: the nearest integer, ties towards +Infinity; |x| < 2^31
MathRound(x) ==
  IF x.s = 0 THEN 0
  ELSE LET t     == -x.e
           nInt  == SignificandBits - t
           whole == IF nInt >= 1 THEN BitsToNat(SubSeq(x.m, 1, nInt)) ELSE 0
           half  == nInt + 1 >= 1 /\ nInt + 1 <= SignificandBits /\ x.m[nInt + 1] = 1
           below == \E i \in (nInt + 2)..SignificandBits : i >= 1 /\ x.m[i] = 1
       IN  IF x.s = 1
           THEN whole + (IF half THEN 1 ELSE 0)
           ELSE -(whole + (IF half /\ below THEN 1 ELSE 0))

\* compress.ts 216-218: originalSize > 0
\*   ? Math.round(((originalSize - compressedSize) / originalSize) * 100) : 0
savingsOf(originalSize, compressedSize) ==
  IF originalSize > 0
  THEN MathRound(FlTimes(FlDiv(originalSize - compressedSize, originalSize), 100))
  ELSE 0

(***************************************************************************)
(* More of the Number arithmetic, as estimateSize uses it: integer to      *)
(* double, double * double, double + double, comparison, Math.min.         *)
(***************************************************************************)
Zeros(n) == [i \in 1..n |-> 0]

\* the Number an integer n is, |n| < 2^30
FlOfInt(n) ==
  IF n = 0 THEN FlZero
  ELSE LET abs == IF n < 0 THEN -n ELSE n
           L   == CHOOSE k \in 1..30 : abs < 2 ^ k /\ abs >= 2 ^ (k - 1)
       IN  [s |-> IF n < 0 THEN -1 ELSE 1,
            m |-> [i \in 1..L |-> (abs \div 2 ^ (L - i)) % 2]
                    \o Zeros(SignificandBits - L),
            e |-> L - SignificandBits]

\* digits behind n - Len(digits) leading zero digits
PadDigits(digits, n) == Zeros(n - Len(digits)) \o digits

\* a + b for base-256 digit sequences of the same length
RECURSIVE DigitsPlus(_, _, _, _)
DigitsPlus(a, b, carry, acc) ==
  IF Len(a) = 0
  THEN IF carry = 0 THEN acc ELSE <<carry>> \o acc
  ELSE LET t == a[Len(a)] + b[Len(b)] + carry
       IN  DigitsPlus(SubSeq(a, 1, Len(a) - 1), SubSeq(b, 1, Len(b) - 1),
                      t \div 256, <<t % 256>> \o acc)

\* acc * 256^Len(b) + a * b, schoolbook from the first digit of b
RECURSIVE DigitsProduct(_, _, _)
DigitsProduct(a, b, acc) ==
  IF Len(b) = 0 THEN acc
  ELSE LET shifted == Append(acc, 0)
           term    == DigitsTimes(a, b[1], 0, <<>>)
           n       == IF Len(shifted) > Len(term) THEN Len(shifted) ELSE Len(term)
       IN  DigitsProduct(a, Tail(b),
             DigitsPlus(PadDigits(shifted, n), PadDigits(term, n), 0, <<>>))

\* the Number x * y: the exact product of the significands, rounded
FlMul(x, y) ==
  IF x.s = 0 \/ y.s = 0 THEN FlZero
  ELSE LET product == DigitsProduct(BitsToDigits(<<0, 0, 0>> \o x.m),
                                    BitsToDigits(<<0, 0, 0>> \o y.m), <<>>)
       IN  RoundNearestEven(x.s * y.s, StripZeros(DigitsToBits(product)), FALSE,
                            x.e + y.e)

\* the Number x + y for x >= 0 and y >= 0: both significands are brought to
\* the smaller exponent, added exactly, and the sum is rounded
FlPlus(x, y) ==
  IF x.s = 0 THEN y
  ELSE IF y.s = 0 THEN x
  ELSE LET e  == IF x.e < y.e THEN x.e ELSE y.e
           bx == x.m \o Zeros(x.e - e)
           by == y.m \o Zeros(y.e - e)
           L  == IF Len(bx) > Len(by) THEN Len(bx) ELSE Len(by)
           n  == 8 * ((L + 7) \div 8)
           sum == DigitsPlus(BitsToDigits(Zeros(n - Len(bx)) \o bx),
                             BitsToDigits(Zeros(n - Len(by)) \o by), 0, <<>>)
       IN  RoundNearestEven(1, StripZeros(DigitsToBits(sum)), FALSE, e)

\* |x| < |y| for nonzero doubles
MagLess(x, y) ==
  \/ x.e < y.e
  \/ /\ x.e = y.e
     /\ \E i \in 1..SignificandBits :
          /\ x.m[i] < y.m[i]
          /\ \A j \in 1..(i - 1) : x.m[j] = y.m[j]

\* x < y
FlLess(x, y) ==
  IF x.s # y.s THEN x.s < y.s
  ELSE IF x.s = 1 THEN MagLess(x, y)
  ELSE IF x.s = -1 THEN MagLess(y, x)
  ELSE FALSE

\* Math.min of two Numbers
MathMin(x, y) == IF FlLess(y, x) THEN y ELSE x

\* the Number a decimal literal with the value n / d denotes
Literal(n, d) == FlDiv(n, d)

\* estimateSize without the cap at originalSize
estimateSizeUncapped(originalSize, width, height, format, mode, customQuality) ==
  LET pixels  == FlMul(FlOfInt(width), FlOfInt(height))
      q       == getQuality(mode, format, customQuality)
      bppBase == [png |-> Literal(2, 1), jpeg |-> Literal(2, 5),
                  webp |-> Literal(1, 4), avif |-> Literal(3, 20)]
      qualityFactor ==
        IF format = "png" THEN Literal(1, 1)
        ELSE FlPlus(Literal(1, 2), FlMul(FlDiv(q, 100), Literal(4, 5)))
  IN  FlMul(FlMul(pixels, bppBase[format]), qualityFactor)

\* compress.ts estimateSize
estimateSize(originalSize, width, height, format, mode, customQuality) ==
  LET pixels  == FlMul(FlOfInt(width), FlOfInt(height))
      q       == getQuality(mode, format, customQuality)
      bppBase == [png |-> Literal(2, 1), jpeg |-> Literal(2, 5),
                  webp |-> Literal(1, 4), avif |-> Literal(3, 20)]
      qualityFactor ==
        IF format = "png" THEN Literal(1, 1)
        ELSE FlPlus(Literal(1, 2), FlMul(FlDiv(q, 100), Literal(4, 5)))
      estimatedSize == FlMul(FlMul(pixels, bppBase[format]), qualityFactor)
  IN  MathMin(estimatedSize, FlOfInt(originalSize))

\* compress-native estimateSize with the quality left out of the estimate
estimateSizeNativeFlat(originalSize, width, height, format, mode, customQuality) ==
  LET pixels  == FlMul(FlOfInt(width), FlOfInt(height))
      bppBase == [png |-> Literal(2, 1), jpeg |-> Literal(2, 5),
                  webp |-> Literal(1, 4), avif |-> Literal(3, 20)]
      estimatedSize == FlMul(FlMul(pixels, bppBase[format]), Literal(1, 1))
  IN  MathMin(estimatedSize, FlOfInt(originalSize))

\* compress-native estimateSize
estimateSizeNative(originalSize, width, height, format, mode, customQuality) ==
  LET pixels  == FlMul(FlOfInt(width), FlOfInt(height))
      q       == getQualityNative(mode, format, customQuality)
      bppBase == [png |-> Literal(2, 1), jpeg |-> Literal(2, 5),
                  webp |-> Literal(1, 4), avif |-> Literal(3, 20)]
      qualityFactor ==
        IF format = "png" THEN Literal(1, 1)
        ELSE FlPlus(Literal(1, 2), FlMul(FlDiv(q, 100), Literal(4, 5)))
      estimatedSize == FlMul(FlMul(pixels, bppBase[format]), qualityFactor)
  IN  MathMin(estimatedSize, FlOfInt(originalSize))

(***************************************************************************)
(* Bounds of the model: the inputs a call is given and the answers the     *)
(* environment may give.                                                   *)
(***************************************************************************)
\* declared media types of source blobs: the four formats (one in upper
\* case, one under its short name), an unsupported one, and the empty type
MediaTypes ==
  { T_image \o T_jpeg,
    T_image \o T_jpg,
    <<"I", "M", "A", "G", "E", "/", "P", "N", "G">>,
    T_image \o T_webp,
    T_image \o T_avif,
    T_image \o <<"g", "i", "f">>,
    <<>> }

\* byte lengths of source blobs
SrcSizes == {0, 40}

\* byte lengths an encoder may produce
EncSizes == {17, 30, 51}

\* the largest quality a caller passes in options.quality
MaxCustomQuality == 101

CustomQualities == {0, 45, MaxCustomQuality}

CompressionOptions ==
  [mode : CompressionMode, quality : CustomQualities, outputFormat : ImageFormat]

EntryPoints ==
  { <<"wasm", "url">>, <<"wasm", "blob">>,
    <<"canvas", "url">>, <<"canvas", "blob">>,
    <<"worker", "request">> }

NoSource == [type |-> <<>>, inputFormat |-> Null, size |-> 0]

(***************************************************************************)
(* The state of one call                                                   *)
(***************************************************************************)
VARIABLES
  host,           \* "wasm" | "canvas" | "worker"
  entry,          \* "url" | "blob" | "request"
  options,        \* CompressionOptions (worker: the request's settings)
  source,         \* the source blob: declared type and byte length
                  \* (worker: the request's buffer and inputFormat)
  pc,             \* the await the call is suspended at, or "done" / "failed"
  progress,       \* the values given to onProgress / sendProgress, in order
  originalSize,   \* the local originalSize, <<>> until assigned
  quality,        \* the resolved quality, <<>> until resolved
  encodes,        \* the encoder calls made, in order
  compressedBlob, \* the encoder output the call holds, <<>> until there is one
  stages,         \* the stages that completed: fetch, read, decode, encode
  result,         \* <<r>> once a result is returned (worker: posted)
  error,          \* <<message>> once the call rejected (worker: posted an error)
  urlLoads,       \* how many times the source URL was requested
  objectUrl       \* "none" | "live" | "revoked" | "revoked twice"

\* the state of the single call
callVars ==
  << host, entry, options, source, pc, progress, originalSize, quality, encodes,
     compressedBlob, stages, result, error, urlLoads, objectUrl >>

(***************************************************************************)
(* State of the other views of the program.  Each specification below      *)
(* moves one group of variables and leaves the others at rest.             *)
(***************************************************************************)
VARIABLES
  args,           \* the arguments a pure function is called with
  ret,            \* <<v>> once it returned v
  inFlight,       \* concurrent compress calls: the locals of each
  posted,         \* what the worker gave to ctx.postMessage, in order
  codec,          \* the module-level memo of each codec adapter
  loads,          \* per adapter, the import() calls started
  users,          \* callers of the codec loaders: where each stands
  hook,           \* useCompression: isCompressing, progress, error, result
  panel,          \* ExportPanel: format, quality, resolution, mode
  compressions,   \* the compress calls started through the hook, in order
  downloads,      \* what downloadBlob was given, in order
  hits,           \* rate-limit: ip -> timestamps of the recorded calls
  callCount,      \* rate-limit: calls since the module was loaded
  clock,          \* what Date.now() answers
  limit,          \* the options the caller passes to rateLimit
  verdicts        \* the rateLimit calls made and what each returned

pureVars == << args, ret >>

concurrentVars == << inFlight, posted >>

loaderVars == << codec, loads, users >>

hookVars == << hook, panel, compressions, downloads >>

limiterVars == << hits, callCount, clock, limit, verdicts >>

vars == << callVars, pureVars, concurrentVars, loaderVars, hookVars, limiterVars >>

\* the groups at rest
CallAtRest ==
  /\ host = "wasm" /\ entry = "blob"
  /\ options = [mode |-> "smart", quality |-> 45, outputFormat |-> "jpeg"]
  /\ source = [type |-> <<>>, inputFormat |-> "null", size |-> 0]
  /\ pc = "start"
  /\ progress = <<>>
  /\ originalSize = <<>>
  /\ quality = <<>>
  /\ encodes = <<>>
  /\ compressedBlob = <<>>
  /\ stages = {}
  /\ result = <<>>
  /\ error = <<>>
  /\ urlLoads = 0
  /\ objectUrl = "none"

PureAtRest == args = <<>> /\ ret = <<>>

ConcurrentAtRest == inFlight = <<>> /\ posted = <<>>

LoaderAtRest == codec = <<>> /\ loads = <<>> /\ users = <<>>

HookAtRest ==
  hook = <<>> /\ panel = <<>> /\ compressions = <<>> /\ downloads = <<>>

LimiterAtRest ==
  hits = <<>> /\ callCount = 0 /\ clock = 0 /\ limit = <<>> /\ verdicts = <<>>

\* what a single call leaves alone
outsideCall == << pureVars, concurrentVars, loaderVars, hookVars, limiterVars >>

Init ==
  /\ \E ep \in EntryPoints : host = ep[1] /\ entry = ep[2]
  /\ options \in CompressionOptions
  /\ source \in
       IF entry = "url" THEN {NoSource}
       ELSE IF entry = "blob"
            THEN [type : MediaTypes, inputFormat : {Null}, size : SrcSizes]
            ELSE [type : {<<>>}, inputFormat : ImageFormat, size : SrcSizes]
  /\ pc = "start"
  /\ progress = <<>>
  /\ originalSize = <<>>
  /\ quality = <<>>
  /\ encodes = <<>>
  /\ compressedBlob = <<>>
  /\ stages = {}
  /\ result = <<>>
  /\ error = <<>>
  /\ urlLoads = 0
  /\ objectUrl = "none"
  /\ PureAtRest /\ ConcurrentAtRest /\ LoaderAtRest /\ HookAtRest /\ LimiterAtRest

\* a progress callback that reports the work left instead of the work done
onProgressRemaining(p) == progress' = Append(progress, 100 - p)

\* onProgress?.(p) and sendProgress(id, p)
onProgress(p) == progress' = Append(progress, p)

\* URL.revokeObjectURL(url) in the finally block of the canvas
\* compressFromBlob, the only function that creates an object URL
revokeObjectURL(u) ==
  IF ~(host = "canvas" /\ entry = "blob") THEN u
  ELSE IF u = "live" THEN "revoked"
  ELSE IF u = "revoked" THEN "revoked twice"
  ELSE u

\* Throw without the finally block: the object URL is left alone
ThrowLeaking(err) ==
  /\ error' = <<err>>
  /\ pc' = "failed"
  /\ objectUrl' = objectUrl

\* the call rejects with err (a throw that nothing catches); the finally
\* block of the canvas compressFromBlob runs on the way out
Throw(err) ==
  /\ error' = <<err>>
  /\ pc' = "failed"
  /\ objectUrl' = revokeObjectURL(objectUrl)

\* what fetch may answer: a rejected promise, a response that is not ok, or
\* a response whose body is a blob
FetchOutcomes ==
  { [kind |-> k, type |-> <<>>, size |-> 0] : k \in {"reject", "status"} }
    \cup { [kind |-> "ok", type |-> t, size |-> n] : t \in MediaTypes, n \in SrcSizes }

(***************************************************************************)
(* compress.ts: the WASM inline variant                                    *)
(***************************************************************************)
\* compressFromUrl, up to the await of fetch(url)
WasmUrlStart ==
  /\ host = "wasm" /\ entry = "url" /\ pc = "start"
  /\ onProgress(5)
  /\ urlLoads' = urlLoads + 1
  /\ pc' = "fetch"
  /\ UNCHANGED << host, entry, options, source, originalSize, quality, encodes,
                  compressedBlob, stages, result, error, objectUrl >>
  /\ UNCHANGED outsideCall

\* WasmUrlFetched with the check of response.ok after the progress report
WasmUrlFetchedLate ==
  /\ host = "wasm" /\ pc = "fetch"
  /\ \E r \in FetchOutcomes :
       IF r.kind = "reject"
       THEN /\ Throw("Failed to fetch")
            /\ UNCHANGED << source, originalSize, progress, stages >>
       ELSE IF r.kind = "status"
       THEN /\ Throw("Failed to fetch image: status")
            /\ onProgress(15)
            /\ UNCHANGED << source, originalSize, stages >>
       ELSE /\ source' = [type |-> r.type, inputFormat |-> Null, size |-> r.size]
            /\ originalSize' = <<r.size>>
            /\ onProgress(15)
            /\ stages' = stages \cup {"fetch"}
            /\ pc' = "read"
            /\ UNCHANGED << error, objectUrl >>
  /\ UNCHANGED << host, entry, options, quality, encodes, compressedBlob,
                  result, urlLoads >>
  /\ UNCHANGED outsideCall

\* compressFromUrl, from the response to the await of blob.arrayBuffer()
\* in decodeFromBlob
WasmUrlFetched ==
  /\ host = "wasm" /\ pc = "fetch"
  /\ \E r \in FetchOutcomes :
       IF r.kind = "reject"
       THEN /\ Throw("Failed to fetch")
            /\ UNCHANGED << source, originalSize, progress, stages >>
       ELSE IF r.kind = "status"
       THEN /\ Throw("Failed to fetch image: status")
            /\ UNCHANGED << source, originalSize, progress, stages >>
       ELSE /\ source' = [type |-> r.type, inputFormat |-> Null, size |-> r.size]
            /\ originalSize' = <<r.size>>
            /\ onProgress(15)
            /\ stages' = stages \cup {"fetch"}
            /\ pc' = "read"
            /\ UNCHANGED << error, objectUrl >>
  /\ UNCHANGED << host, entry, options, quality, encodes, compressedBlob,
                  result, urlLoads >>
  /\ UNCHANGED outsideCall

\* compressFromBlob, up to the await of blob.arrayBuffer() in decodeFromBlob
WasmBlobStart ==
  /\ host = "wasm" /\ entry = "blob" /\ pc = "start"
  /\ onProgress(5)
  /\ pc' = "read"
  /\ UNCHANGED << host, entry, options, source, originalSize, quality, encodes,
                  compressedBlob, stages, result, error, urlLoads, objectUrl >>
  /\ UNCHANGED outsideCall

\* decodeFromBlob, from the buffer to the await of the decoder
WasmRead ==
  /\ host = "wasm" /\ pc = "read"
  /\ IF detectFormat(source.type) = Null
     THEN /\ Throw("Unsupported image format")
          /\ UNCHANGED stages
     ELSE /\ stages' = stages \cup {"read"}
          /\ pc' = "decode"
          /\ UNCHANGED << error, objectUrl >>
  /\ UNCHANGED << host, entry, options, source, progress, originalSize, quality,
                  encodes, compressedBlob, result, urlLoads >>
  /\ UNCHANGED outsideCall

\* what a decoder may answer for a buffer declared as format f; decodeAvif
\* turns a null answer of the codec into a throw
DecodeOutcomes(f) ==
  {"ok", "throw"} \cup (IF f = "avif" THEN {"null"} ELSE {})

DecodeError(outcome) ==
  IF outcome = "null"
  THEN "AVIF decode returned null - corrupt or unsupported image"
  ELSE "decode failed"

\* the encoder call encode(imageData, format, quality) of compress.ts and
\* encodeBuffer of the worker: PNG goes through encodePng and optimizePng(.., 3)
WasmEncodeCall(format, q) ==
  [format |-> format, quality |-> q, role |-> "requested",
   level |-> IF format = "png" THEN 3 ELSE 0, outcome |-> "pending",
   output |-> <<>>]

\* the pending encoder call has answered: a throw, or an output
Answered(calls, b) ==
  [calls EXCEPT ![Len(calls)] =
     [@ EXCEPT !.outcome = b.kind,
               !.output = IF b.kind = "ok" THEN <<b>> ELSE <<>>]]

\* from the decoder's answer to the await of encode(...): the rest of
\* decodeFromBlob, then compressFromUrl / compressFromBlob up to the encode
WasmDecoded ==
  /\ host = "wasm" /\ pc = "decode"
  /\ \E d \in DecodeOutcomes(detectFormat(source.type)) :
       IF d # "ok"
       THEN /\ Throw(DecodeError(d))
            /\ UNCHANGED << originalSize, progress, quality, encodes, stages >>
       ELSE /\ originalSize' = IF entry = "blob" THEN <<source.size>> ELSE originalSize
            /\ onProgress(40)
            /\ quality' = <<getQuality(options.mode, options.outputFormat, options.quality)>>
            /\ encodes' = Append(encodes, WasmEncodeCall(options.outputFormat, quality'[1]))
            /\ stages' = stages \cup {"decode"}
            /\ pc' = "encode"
            /\ UNCHANGED << error, objectUrl >>
  /\ UNCHANGED << host, entry, options, source, compressedBlob, result, urlLoads >>
  /\ UNCHANGED outsideCall

\* what a WASM encoder may answer: a throw, or a buffer of the format asked for
WasmEncodeOutcomes(format) ==
  { [kind |-> "throw", format |-> format, type |-> <<>>, size |-> 0] }
    \cup { [kind |-> "ok", format |-> format, type |-> <<>>, size |-> n] : n \in EncSizes }

\* new Blob([buffer], {type}) : the blob has the buffer's bytes and the given type
NewBlob(buffer, type) ==
  [format |-> buffer.format, type |-> type, size |-> buffer.size]

byteLength(buffer) == buffer.size

\* the CompressionResult both inline variants build
CompressionResult(buffer, blob, origSize, compSize) ==
  [buffer |-> buffer, blob |-> blob, originalSize |-> origSize,
   compressedSize |-> compSize, savings |-> savingsOf(origSize, compSize)]

\* compressFromUrl / compressFromBlob, from the encoder's answer to the return
WasmEncoded ==
  /\ host = "wasm" /\ pc = "encode"
  /\ \E b \in WasmEncodeOutcomes(options.outputFormat) :
       IF b.kind = "throw"
       THEN /\ encodes' = Answered(encodes, b)
            /\ Throw("encode failed")
            /\ UNCHANGED << progress, compressedBlob, stages, result >>
       ELSE /\ encodes' = Answered(encodes, b)
            /\ progress' = progress \o <<90, 100>>
            /\ compressedBlob' = <<NewBlob(b, getMimeType(options.outputFormat))>>
            /\ stages' = stages \cup {"encode"}
            /\ result' = <<CompressionResult(b, compressedBlob'[1],
                                             originalSize[1], byteLength(b))>>
            /\ pc' = "done"
            /\ UNCHANGED << error, objectUrl >>
  /\ UNCHANGED << host, entry, options, source, originalSize, quality, urlLoads >>
  /\ UNCHANGED outsideCall

(***************************************************************************)
(* compress-native: the Canvas variant                                     *)
(***************************************************************************)
\* compressFromUrl, up to the await of fetch(url)
NativeUrlStart ==
  /\ host = "canvas" /\ entry = "url" /\ pc = "start"
  /\ onProgress(5)
  /\ urlLoads' = urlLoads + 1
  /\ pc' = "fetch"
  /\ UNCHANGED << host, entry, options, source, originalSize, quality, encodes,
                  compressedBlob, stages, result, error, objectUrl >>
  /\ UNCHANGED outsideCall

\* compressFromUrl, from the response to the await of loadImage(url)
NativeUrlFetched ==
  /\ host = "canvas" /\ pc = "fetch"
  /\ \E r \in FetchOutcomes :
       IF r.kind = "reject"
       THEN /\ Throw("Failed to fetch")
            /\ UNCHANGED << source, originalSize, progress, stages, urlLoads >>
       ELSE IF r.kind = "status"
       THEN /\ Throw("Failed to fetch image: status")
            /\ UNCHANGED << source, originalSize, progress, stages, urlLoads >>
       ELSE /\ source' = [type |-> r.type, inputFormat |-> Null, size |-> r.size]
            /\ originalSize' = <<r.size>>
            /\ onProgress(20)
            /\ stages' = stages \cup {"fetch"}
            /\ urlLoads' = urlLoads + 1
            /\ pc' = "load"
            /\ UNCHANGED << error, objectUrl >>
  /\ UNCHANGED << host, entry, options, quality, encodes, compressedBlob, result >>
  /\ UNCHANGED outsideCall

\* compressFromBlob, up to the await of loadImage(url)
NativeBlobStart ==
  /\ host = "canvas" /\ entry = "blob" /\ pc = "start"
  /\ onProgress(5)
  /\ originalSize' = <<source.size>>
  /\ objectUrl' = "live"
  /\ pc' = "load"
  /\ UNCHANGED << host, entry, options, source, quality, encodes, compressedBlob,
                  stages, result, error, urlLoads >>
  /\ UNCHANGED outsideCall

\* one call of encodeWithCanvas(img, format, quality)
CanvasEncodeCall(format, q, role) ==
  [format |-> format, quality |-> q, role |-> role, level |-> 0,
   outcome |-> "pending", output |-> <<>>]

\* what encodeWithCanvas may answer: a throw (no 2d context, or toBlob gave
\* null), or a blob of the type asked for, or a PNG blob where the browser
\* does not encode that type
CanvasEncodeOutcomes(format) ==
  { [kind |-> "throw", format |-> format, type |-> <<>>, size |-> 0] }
    \cup { [kind |-> "ok", format |-> f, type |-> getMimeType(f), size |-> n] :
             f \in {format, "png"}, n \in EncSizes }

\* NativeLoaded with the load error swallowed: the call goes on to encode
NativeLoadedLenient ==
  /\ host = "canvas" /\ pc = "load"
  /\ \E ok \in BOOLEAN :
       /\ onProgress(40)
       /\ quality' = <<getQualityNative(options.mode, options.outputFormat,
                                        options.quality)>>
       /\ encodes' = Append(encodes,
            CanvasEncodeCall(options.outputFormat, quality'[1], "requested"))
       /\ stages' = IF ok THEN stages \cup {"decode"} ELSE stages
       /\ pc' = "encode"
       /\ UNCHANGED << error, objectUrl >>
  /\ UNCHANGED << host, entry, options, source, originalSize, compressedBlob,
                  result, urlLoads >>
  /\ UNCHANGED outsideCall

\* from the image load to the await of the first encodeWithCanvas
NativeLoaded ==
  /\ host = "canvas" /\ pc = "load"
  /\ \E ok \in BOOLEAN :
       IF ~ok
       THEN /\ Throw("Failed to load image")
            /\ UNCHANGED << progress, quality, encodes, stages >>
       ELSE /\ onProgress(40)
            /\ quality' = <<getQualityNative(options.mode, options.outputFormat,
                                             options.quality)>>
            /\ encodes' = Append(encodes,
                 CanvasEncodeCall(options.outputFormat, quality'[1], "requested"))
            /\ stages' = stages \cup {"decode"}
            /\ pc' = "encode"
            /\ UNCHANGED << error, objectUrl >>
  /\ UNCHANGED << host, entry, options, source, originalSize, compressedBlob,
                  result, urlLoads >>
  /\ UNCHANGED outsideCall

\* BlobOf with the blob labelled with the type of the requested format
BlobOfRequested(b) ==
  [format |-> b.format, type |-> getMimeType(options.outputFormat), size |-> b.size]

\* the Blob an encoder answer carries
BlobOf(b) == [format |-> b.format, type |-> b.type, size |-> b.size]

\* the role of the encoder call the canvas variant is waiting for
Pending(role) ==
  /\ host = "canvas" /\ pc = "encode"
  /\ encodes[Len(encodes)].role = role

\* the try block is left with a blob: progress 90, then the await of
\* compressedBlob.arrayBuffer()
NativeKeep(b) ==
  /\ encodes' = Answered(encodes, b)
  /\ compressedBlob' = <<BlobOf(b)>>
  /\ onProgress(90)
  /\ stages' = stages \cup {"encode"}
  /\ pc' = "buffer"
  /\ UNCHANGED << error, objectUrl >>

\* catch { compressedBlob = await encodeWithCanvas(img, "jpeg", quality) }
NativeFallback(b) ==
  /\ encodes' = Append(Answered(encodes, b),
                       CanvasEncodeCall("jpeg", quality[1], "fallback"))
  /\ UNCHANGED << compressedBlob, progress, stages, pc, error, objectUrl >>

\* NativeEncodedRequested without the check of the blob's type
NativeEncodedRequestedUnchecked ==
  /\ Pending("requested")
  /\ \E b \in CanvasEncodeOutcomes(options.outputFormat) :
       IF b.kind = "throw" THEN NativeFallback(b) ELSE NativeKeep(b)
  /\ UNCHANGED << host, entry, options, source, originalSize, quality, result,
                  urlLoads >>
  /\ UNCHANGED outsideCall

\* the answer to encodeWithCanvas(img, options.outputFormat, quality)
NativeEncodedRequested ==
  /\ Pending("requested")
  /\ \E b \in CanvasEncodeOutcomes(options.outputFormat) :
       IF b.kind = "throw" THEN NativeFallback(b)
       ELSE IF options.outputFormat = "avif" /\ ~includes(b.type, T_avif)
       THEN /\ encodes' = Append(Answered(encodes, b),
                                 CanvasEncodeCall("webp", quality[1], "webp"))
            /\ compressedBlob' = <<BlobOf(b)>>
            /\ UNCHANGED << progress, stages, pc, error, objectUrl >>
       ELSE NativeKeep(b)
  /\ UNCHANGED << host, entry, options, source, originalSize, quality, result,
                  urlLoads >>
  /\ UNCHANGED outsideCall

\* the answer to encodeWithCanvas(img, "webp", quality)
NativeEncodedWebp ==
  /\ Pending("webp")
  /\ \E b \in CanvasEncodeOutcomes("webp") :
       IF b.kind = "throw" THEN NativeFallback(b) ELSE NativeKeep(b)
  /\ UNCHANGED << host, entry, options, source, originalSize, quality, result,
                  urlLoads >>
  /\ UNCHANGED outsideCall

\* NativeEncodedFallback with the fallback inside its own retry: a throw of
\* the JPEG encode starts another JPEG encode
NativeEncodedFallbackRetry ==
  /\ Pending("fallback")
  /\ \E b \in CanvasEncodeOutcomes("jpeg") :
       IF b.kind = "throw" THEN NativeFallback(b) ELSE NativeKeep(b)
  /\ UNCHANGED << host, entry, options, source, originalSize, quality, result,
                  urlLoads >>
  /\ UNCHANGED outsideCall

\* the answer to encodeWithCanvas(img, "jpeg", quality) in the catch block
NativeEncodedFallback ==
  /\ Pending("fallback")
  /\ \E b \in CanvasEncodeOutcomes("jpeg") :
       IF b.kind = "throw"
       THEN /\ encodes' = Answered(encodes, b)
            /\ Throw("Failed to encode as jpeg")
            /\ UNCHANGED << compressedBlob, progress, stages >>
       ELSE NativeKeep(b)
  /\ UNCHANGED << host, entry, options, source, originalSize, quality, result,
                  urlLoads >>
  /\ UNCHANGED outsideCall

\* compressedBlob.arrayBuffer(): the buffer has the blob's bytes
arrayBuffer(blob) == [kind |-> "ok", format |-> blob.format, type |-> <<>>,
                      size |-> blob.size]

\* NativeBuffer without the final onProgress?.(100)
NativeBufferSilent ==
  /\ host = "canvas" /\ pc = "buffer"
  /\ LET compressedBuffer == arrayBuffer(compressedBlob[1]) IN
       result' = <<CompressionResult(compressedBuffer, compressedBlob[1],
                                     originalSize[1], byteLength(compressedBuffer))>>
  /\ pc' = "done"
  /\ objectUrl' = revokeObjectURL(objectUrl)
  /\ UNCHANGED << host, entry, options, source, originalSize, quality, encodes,
                  compressedBlob, stages, error, urlLoads, progress >>
  /\ UNCHANGED outsideCall

\* from the buffer to the return; finally revokes the object URL
NativeBuffer ==
  /\ host = "canvas" /\ pc = "buffer"
  /\ LET compressedBuffer == arrayBuffer(compressedBlob[1]) IN
       /\ onProgress(100)
       /\ result' = <<CompressionResult(compressedBuffer, compressedBlob[1],
                                        originalSize[1], byteLength(compressedBuffer))>>
  /\ pc' = "done"
  /\ objectUrl' = revokeObjectURL(objectUrl)
  /\ UNCHANGED << host, entry, options, source, originalSize, quality, encodes,
                  compressedBlob, stages, error, urlLoads >>
  /\ UNCHANGED outsideCall

(***************************************************************************)
(* worker.ts: processImage                                                 *)
(***************************************************************************)
\* the settings of the request, as CompressionSettings
settings ==
  [mode |-> options.mode, quality |-> options.quality, format |-> options.outputFormat]

\* the message listener starts processImage, which runs up to the await of
\* decodeBuffer(buffer, inputFormat)
WorkerStart ==
  /\ host = "worker" /\ pc = "start"
  /\ onProgress(5)
  /\ stages' = stages \cup {"read"}
  /\ pc' = "decode"
  /\ UNCHANGED << host, entry, options, source, originalSize, quality, encodes,
                  compressedBlob, result, error, urlLoads, objectUrl >>
  /\ UNCHANGED outsideCall

\* from the decoder's answer to the await of the encoder in encodeBuffer
WorkerDecoded ==
  /\ host = "worker" /\ pc = "decode"
  /\ \E d \in DecodeOutcomes(source.inputFormat) :
       IF d # "ok"
       THEN /\ Throw(DecodeError(d))
            /\ UNCHANGED << progress, quality, encodes, stages >>
       ELSE /\ progress' = progress \o <<30, 35>>
            /\ quality' = <<getQualityForSettings(settings)>>
            /\ encodes' = Append(encodes, WasmEncodeCall(settings.format, quality'[1]))
            /\ stages' = stages \cup {"decode"}
            /\ pc' = "encode"
            /\ UNCHANGED << error, objectUrl >>
  /\ UNCHANGED << host, entry, options, source, originalSize, compressedBlob,
                  result, urlLoads >>
  /\ UNCHANGED outsideCall

\* the "result" message with the two sizes in each other's field
CompressResultSwapped(buffer, origSize, compSize) ==
  [type |-> "result", buffer |-> buffer, originalSize |-> compSize,
   compressedSize |-> origSize]

\* the "result" message of the worker
CompressResult(buffer, origSize, compSize) ==
  [type |-> "result", buffer |-> buffer, originalSize |-> origSize,
   compressedSize |-> compSize]

\* from the encoder's answer to the posted "result" or "error" message
WorkerEncoded ==
  /\ host = "worker" /\ pc = "encode"
  /\ \E b \in WasmEncodeOutcomes(settings.format) :
       IF b.kind = "throw"
       THEN /\ encodes' = Answered(encodes, b)
            /\ Throw("encode failed")
            /\ UNCHANGED << progress, originalSize, stages, result >>
       ELSE /\ encodes' = Answered(encodes, b)
            /\ onProgress(90)
            /\ originalSize' = <<source.size>>
            /\ stages' = stages \cup {"encode"}
            /\ result' = <<CompressResult(b, source.size, byteLength(b))>>
            /\ pc' = "done"
            /\ UNCHANGED << error, objectUrl >>
  /\ UNCHANGED << host, entry, options, source, quality, compressedBlob, urlLoads >>
  /\ UNCHANGED outsideCall

(***************************************************************************)
(* The specification                                                       *)
(***************************************************************************)
Next ==
  \/ WasmUrlStart
  \/ WasmUrlFetched
  \/ WasmBlobStart
  \/ WasmRead
  \/ WasmDecoded
  \/ WasmEncoded
  \/ NativeUrlStart
  \/ NativeUrlFetched
  \/ NativeBlobStart
  \/ NativeLoaded
  \/ NativeEncodedRequested
  \/ NativeEncodedWebp
  \/ NativeEncodedFallback
  \/ NativeBuffer
  \/ WorkerStart
  \/ WorkerDecoded
  \/ WorkerEncoded

Spec == Init /\ [][Next]_vars

(***************************************************************************)
(* Properties                                                              *)
(***************************************************************************)
Inline == host \in {"wasm", "canvas"}

Returned == result # <<>>

Rejected == error # <<>>

Reported(p) == \E i \in 1..Len(progress) : progress[i] = p

\* C1: in every entry point (compressFromUrl and compressFromBlob of both
\* inline variants, processImage of the worker) the progress values reported
\* for one call are non-decreasing and each lies in 0..100, on every path.
C1_ProgressMonotone ==
  /\ \A i \in 1..Len(progress) : progress[i] \in 0..100
  /\ \A i \in 1..(Len(progress) - 1) : progress[i] <= progress[i + 1]

\* a canvas compressFromUrl that asked for AVIF, was downgraded, saw the WebP
\* encode throw and returned the JPEG fallback, having reported five values
C1_Witness ==
  /\ host = "canvas" /\ entry = "url" /\ pc = "done"
  /\ Len(encodes) = 3
  /\ Len(progress) = 5

\* C2: an inline call that returns a CompressionResult has reported 100
\* exactly once, as its last progress value, right after 90, and no later
\* than the result.
C2_FinalProgress ==
  (Inline /\ Returned) =>
     /\ Len(progress) >= 2
     /\ progress[Len(progress)] = 100
     /\ progress[Len(progress) - 1] = 90
     /\ Cardinality({i \in 1..Len(progress) : progress[i] = 100}) = 1

\* a canvas compressFromBlob that returned after 5, 40, 90, 100
C2_Witness ==
  /\ host = "canvas" /\ entry = "blob" /\ Returned
  /\ progress = <<5, 40, 90, 100>>

\* the integer nearest to the rational n / d (d > 0), ties upwards
RoundRatio(n, d) == (2 * n + d) \div (2 * d)

\* C3: in every CompressionResult of an inline variant, savings =
\* round((originalSize - compressedSize) / originalSize * 100) when
\* originalSize > 0 and savings = 0 when originalSize = 0, exactly, for all
\* sizes, also when the output is larger than the input and after a fallback.
C3_SavingsExact ==
  (Inline /\ Returned) =>
     LET r == result[1] IN
       r.savings = IF r.originalSize > 0
                   THEN RoundRatio((r.originalSize - r.compressedSize) * 100,
                                   r.originalSize)
                   ELSE 0

\* the call holds its source blob: it was given one, or the fetch delivered it
HasSource == entry = "blob" \/ "fetch" \in stages

\* C4: when the source blob's declared media type matches none of jpeg/jpg,
\* png, webp, avif, an inline compress call fails with the unsupported-format
\* error, and neither a decode (or image load) nor an encode is attempted.
C4_UnsupportedFailsFast ==
  (Inline /\ HasSource /\ detectFormat(source.type) = Null) =>
     /\ pc \in {"start", "read", "failed"}
     /\ "decode" \notin stages
     /\ encodes = <<>>
     /\ ~Returned
     /\ Rejected => error = <<"Unsupported image format">>

\* AVIF was asked of the canvas variant and the first encoder call answered
\* with a blob whose type does not say avif
Downgraded ==
  /\ host = "canvas" /\ options.outputFormat = "avif"
  /\ Len(encodes) >= 1
  /\ encodes[1].outcome = "ok"
  /\ ~includes(encodes[1].output[1].type, T_avif)

\* C5 as stated: after such a downgrade the call re-encodes as WebP at the
\* same resolved quality and returns a successful result whose bytes are
\* WebP; the call never fails.
C5_DowngradeYieldsWebp ==
  Downgraded =>
     /\ Len(encodes) >= 2
     /\ encodes[2].format = "webp" /\ encodes[2].quality = quality[1]
     /\ ~Rejected
     /\ Returned => result[1].blob.format = "webp"

\* C5, amended: after such a downgrade the canvas variant re-encodes as WebP
\* at the same resolved quality and the downgrade itself is no error: when
\* the WebP encode answers with a blob the call keeps and returns that blob
\* (WebP, or PNG where the browser encodes no WebP either); when it throws
\* the JPEG fallback is tried, and the call rejects only if that throws too.
\* The returned bytes are never AVIF.
C5_DowngradeReencodes ==
  Downgraded =>
     /\ Len(encodes) >= 2
     /\ encodes[2].format = "webp" /\ encodes[2].role = "webp"
     /\ encodes[2].quality = quality[1] /\ encodes[1].quality = quality[1]
     /\ encodes[2].outcome = "ok" =>
          /\ ~Rejected
          /\ Len(encodes) = 2
          /\ compressedBlob = <<BlobOf(encodes[2].output[1])>>
          /\ compressedBlob[1].format \in {"webp", "png"}
          /\ Returned => result[1].blob = compressedBlob[1]
     /\ Rejected =>
          /\ Len(encodes) = 3
          /\ encodes[2].outcome = "throw"
          /\ encodes[3].format = "jpeg" /\ encodes[3].outcome = "throw"
     /\ Returned =>
          /\ result[1].blob.format # "avif"
          /\ result[1].blob = BlobOf(encodes[Len(encodes)].output[1])

\* a downgraded call that returned WebP bytes
C5_Witness ==
  /\ Downgraded /\ Returned
  /\ result[1].blob.format = "webp"
  /\ result[1].blob.type = getMimeType("webp")

\* C6: whenever the encode to the requested output format throws, the call
\* falls back to one JPEG encode at the resolved quality and returns that
\* encode's output instead of failing - in the canvas variant, the WASM
\* inline variant and the worker alike.
C6_FallbackOnThrow ==
  (Len(encodes) >= 1 /\ encodes[1].outcome = "throw") =>
     /\ Len(encodes) >= 2
     /\ encodes[2].format = "jpeg" /\ encodes[2].quality = quality[1]
     /\ encodes[2].outcome = "ok" => ~Rejected
     /\ Rejected => encodes[2].outcome = "throw"

\* C7: the JPEG fallback is applied at most once per call and never loops; a
\* call makes at most three encoder calls (requested format, WebP after an
\* AVIF downgrade, JPEG fallback), each role at most once and the fallback
\* last; when the fallback encode throws too the call rejects and has
\* reported neither 90 nor 100.
C7_FallbackOnce ==
  /\ Len(encodes) <= 3
  /\ Cardinality({i \in 1..Len(encodes) : encodes[i].role = "fallback"}) <= 1
  /\ \A i \in 1..Len(encodes) :
       /\ encodes[i].role = "fallback" =>
            i = Len(encodes) /\ encodes[i].format = "jpeg"
       /\ \A j \in 1..Len(encodes) : encodes[i].role = encodes[j].role => i = j
       /\ (encodes[i].role = "fallback" /\ encodes[i].outcome = "throw") =>
            /\ pc = "failed" /\ Rejected /\ ~Returned
            /\ ~Reported(90) /\ ~Reported(100)

\* a canvas call whose three encoder calls all failed it: downgraded AVIF,
\* a throwing WebP encode, a throwing JPEG fallback
C7_Witness ==
  /\ host = "canvas" /\ Len(encodes) = 3
  /\ encodes[2].outcome = "throw" /\ encodes[3].outcome = "throw"
  /\ pc = "failed"

\* the stages a returned result rests on
StagesNeeded ==
  {"decode", "encode"}
    \cup (IF entry = "url" THEN {"fetch"} ELSE {})
    \cup (IF host \in {"wasm", "worker"} THEN {"read"} ELSE {})

\* C8: a call that fails at any stage rejects with one error, returns no
\* result and never reports 100; a call that returns a result has completed
\* fetch/read, decode and encode; no outcome is both an error and a result.
C8_ErrorOrResult ==
  /\ ~(Returned /\ Rejected)
  /\ Len(error) <= 1 /\ Len(result) <= 1
  /\ (pc = "failed") = Rejected
  /\ (pc = "done") = Returned
  /\ Rejected => ~Reported(100)
  /\ Returned => StagesNeeded \subseteq stages
  /\ Returned => encodes[Len(encodes)].outcome = "ok"

\* a canvas compressFromUrl that rejected because the fallback failed too,
\* after its fetch and image load had succeeded
C8_Witness ==
  /\ host = "canvas" /\ entry = "url" /\ Rejected
  /\ stages = {"fetch", "decode"}
  /\ error = <<"Failed to encode as jpeg">>

\* C9: in every returned CompressionResult and every worker "result"
\* message compressedSize is the byte length of the returned buffer (and of
\* the returned blob), which is the output of the last encoder call - also
\* after a downgrade or a fallback - and originalSize is the byte length of
\* the source blob.
C9_SizesMeasured ==
  Returned =>
     LET r == result[1] IN
       /\ r.compressedSize = r.buffer.size
       /\ r.buffer.size = encodes[Len(encodes)].output[1].size
       /\ Inline => r.blob.size = r.buffer.size
       /\ r.originalSize = source.size

\* a canvas result that is the JPEG fallback's 51 bytes, for a 40-byte
\* source, after a first encoder answer of another size
C9_Witness ==
  /\ host = "canvas" /\ Returned
  /\ encodes[Len(encodes)].role = "fallback"
  /\ encodes[1].outcome = "ok" /\ encodes[1].output[1].size = 17
  /\ result[1].compressedSize = 51 /\ result[1].originalSize = 40

\* the table of the claim
PolicyTable ==
  [smart   |-> [jpeg |-> 82, png |-> 100, webp |-> 80, avif |-> 63],
   maximum |-> [jpeg |-> 60, png |-> 70,  webp |-> 55, avif |-> 40],
   web     |-> [jpeg |-> 75, png |-> 85,  webp |-> 72, avif |-> 55]]

\* C10: for every mode in {smart, maximum, web} and every format the
\* resolved quality is the fixed table entry, an integer in 1..100, whatever
\* the caller's quality field; for mode custom it is the caller's quality;
\* getQuality of compress.ts, getQuality of compress-native and
\* getQualityForSettings of the worker agree; and the quality a call
\* resolves is that value.
C10_QualityTable ==
  /\ \A f \in ImageFormat, q \in CustomQualities :
       /\ \A m \in {"smart", "maximum", "web"} :
            /\ PolicyTable[m][f] \in 1..100
            /\ getQuality(m, f, q) = PolicyTable[m][f]
            /\ getQualityNative(m, f, q) = PolicyTable[m][f]
            /\ getQualityForSettings([mode |-> m, quality |-> q, format |-> f])
                 = PolicyTable[m][f]
       /\ getQuality("custom", f, q) = q
       /\ getQualityNative("custom", f, q) = q
       /\ getQualityForSettings([mode |-> "custom", quality |-> q, format |-> f]) = q
  /\ quality # <<>> =>
       quality[1] = IF options.mode = "custom" THEN options.quality
                    ELSE PolicyTable[options.mode][options.outputFormat]

\* the worker resolved web/avif to 55 although the request carried the
\* largest custom quality
C10_Witness ==
  /\ host = "worker" /\ options.mode = "web" /\ options.outputFormat = "avif"
  /\ options.quality = MaxCustomQuality
  /\ quality = <<55>>

\* C11: every encoder call a compress operation issues (fallback encodes
\* included) receives a quality that is an integer in 1..100, whatever the
\* CompressionOptions are; a custom quality below 1 or above 100 is clamped
\* before any encoder is called.
C11_QualityInRange ==
  \A i \in 1..Len(encodes) : encodes[i].quality \in 1..100

(***************************************************************************)
(* The pure functions of the two modules, each called once on arguments    *)
(* drawn from bounded sets.                                                *)
(***************************************************************************)
\* compress-native detectFormat with the PNG test ahead of the JPEG test
detectFormatNativePngFirst(type) ==
  LET t == toLowerCase(type) IN
  IF includes(t, T_png) THEN "png"
  ELSE IF includes(t, T_jpeg) \/ includes(t, T_jpg) THEN "jpeg"
  ELSE IF includes(t, T_webp) THEN "webp"
  ELSE IF includes(t, T_avif) THEN "avif"
  ELSE Null

\* compress-native detectFormat, on the blob's declared type
detectFormatNative(type) ==
  LET t == toLowerCase(type) IN
  IF includes(t, T_jpeg) \/ includes(t, T_jpg) THEN "jpeg"
  ELSE IF includes(t, T_png) THEN "png"
  ELSE IF includes(t, T_webp) THEN "webp"
  ELSE IF includes(t, T_avif) THEN "avif"
  ELSE Null

\* the pieces declared media types are put together from: the prefix, the
\* four format names and "jpg", format names in upper and mixed case, an
\* unsupported format, the beginning of a format name, and a separator
TypePieces ==
  { T_image, T_jpeg, T_jpg, T_png, T_webp, T_avif,
    <<"J", "P", "E", "G">>, <<"P", "n", "G">>, <<"W", "e", "b", "P">>,
    <<"A", "V", "I", "F">>, <<"g", "i", "f">>, <<"j", "p">>, <<"+">> }

\* the longest declared type, in pieces
MaxPieces == 3

RECURSIVE Concatenations(_)
Concatenations(n) ==
  IF n = 0 THEN { <<>> }
  ELSE LET shorter == Concatenations(n - 1)
       IN  shorter \cup { s \o p : s \in shorter, p \in TypePieces }

DetectInputs == { [fn |-> "detectFormat", type |-> t] : t \in Concatenations(MaxPieces) }

outsidePure == << callVars, concurrentVars, loaderVars, hookVars, limiterVars >>

\* arguments of estimateSize: sizes in bytes, image dimensions, and the
\* mode with the customQuality argument, <<>> where the caller leaves it out
EstimateSizes == {0, 40, 1000}

EstimateWidths == {0, 3, 30}

EstimateHeights == {1, 40}

EstimateQualities ==
  { <<"smart", <<>>>>, <<"maximum", <<>>>>, <<"web", <<45>>>>,
    <<"custom", <<>>>>, <<"custom", <<0>>>>, <<"custom", <<MaxCustomQuality>>>> }

EstimateInputs ==
  { [fn |-> "estimateSize", originalSize |-> o, width |-> w, height |-> h,
     format |-> f, mode |-> mq[1], customQuality |-> mq[2]] :
       o \in EstimateSizes, w \in EstimateWidths, h \in EstimateHeights,
       f \in ImageFormat, mq \in EstimateQualities }

InitPure ==
  /\ args \in DetectInputs \cup EstimateInputs
  /\ ret = <<>>
  /\ CallAtRest /\ ConcurrentAtRest /\ LoaderAtRest /\ HookAtRest /\ LimiterAtRest

\* detectFormat(blob) of compress.ts and of compress-native on the same blob
DetectFormatCall ==
  /\ args.fn = "detectFormat" /\ ret = <<>>
  /\ ret' = << [compress |-> detectFormat(args.type),
                native   |-> detectFormatNative(args.type)] >>
  /\ UNCHANGED args
  /\ UNCHANGED outsidePure

\* a parameter with a default value: the argument, or the default where the
\* caller passed none
DefaultTo(argument, default) == IF argument = <<>> THEN default ELSE argument[1]

\* estimateSize(...) of compress.ts and of compress-native on the same
\* arguments; customQuality defaults to 80
EstimateSizeCall ==
  /\ args.fn = "estimateSize" /\ ret = <<>>
  /\ LET customQuality == DefaultTo(args.customQuality, 80) IN
       ret' = << [compress |-> estimateSize(args.originalSize, args.width,
                                args.height, args.format, args.mode, customQuality),
                  native   |-> estimateSizeNative(args.originalSize, args.width,
                                args.height, args.format, args.mode, customQuality)] >>
  /\ UNCHANGED args
  /\ UNCHANGED outsidePure

NextPure ==
  \/ DetectFormatCall
  \/ EstimateSizeCall

SpecPure == InitPure /\ [][NextPure]_vars

\* word occurs in type when letter case is ignored
Occurs(word, type) ==
  \E i \in 1..Len(type) :
    \A k \in 1..Len(word) :
      /\ i + k - 1 <= Len(type)
      /\ LowerChar(type[i + k - 1]) = word[k]

\* C12: detectFormat returns jpeg if the declared media type contains
\* "jpeg" or "jpg", otherwise png if it contains "png", otherwise webp if it
\* contains "webp", otherwise avif if it contains "avif", otherwise null;
\* letter case is ignored, the first match in that order wins when several
\* names occur, and the copies of compress.ts and compress-native agree.
C12_DetectFormat ==
  (args.fn = "detectFormat" /\ ret # <<>>) =>
     /\ ret[1].compress =
          IF Occurs(T_jpeg, args.type) \/ Occurs(T_jpg, args.type) THEN "jpeg"
          ELSE IF Occurs(T_png, args.type) THEN "png"
          ELSE IF Occurs(T_webp, args.type) THEN "webp"
          ELSE IF Occurs(T_avif, args.type) THEN "avif"
          ELSE Null
     /\ ret[1].native = ret[1].compress

\* a type that names PNG in mixed case ahead of "jpg" was detected as jpeg
C12_Witness ==
  /\ args.fn = "detectFormat"
  /\ args.type = T_image \o <<"P", "n", "G">> \o T_jpg
  /\ ret = << [compress |-> "jpeg", native |-> "jpeg"] >>

\* C13: estimateSize never returns a value greater than originalSize,
\* whatever the originalSize, width, height, format, mode and custom quality
\* are, and it returns a Number on every input (it never throws); both copies.
C13_EstimateCapped ==
  (args.fn = "estimateSize" /\ ret # <<>>) =>
     /\ ret[1].compress.s \in {-1, 0, 1}
     /\ ret[1].native.s \in {-1, 0, 1}
     /\ ~FlLess(FlOfInt(args.originalSize), ret[1].compress)
     /\ ~FlLess(FlOfInt(args.originalSize), ret[1].native)

\* a 30 x 40 PNG of 1000 bytes: the heuristic gives 2400 and the call
\* returned 1000
C13_Witness ==
  /\ args.fn = "estimateSize"
  /\ args.originalSize = 1000 /\ args.width = 30 /\ args.height = 40
  /\ args.format = "png"
  /\ ret # <<>>
  /\ ret[1].compress = FlOfInt(1000)
  /\ estimateSizeUncapped(1000, 30, 40, "png", args.mode, 80) = FlOfInt(2400)

\* C15: the worker gives the caller the progress contract of the inline
\* host: for a request that succeeds, the progress values the worker reports
\* end with 100, reported no later than the result.
C15_WorkerFinalProgress ==
  (host = "worker" /\ Returned) =>
     /\ Len(progress) >= 1
     /\ progress[Len(progress)] = 100

\* C20: every PNG output a compress operation returns, in every variant
\* (Canvas included), is the result of a PNG encode followed by the lossless
\* optimizer at effort level 3, whatever the mode and quality.
C20_PngOptimized ==
  Returned =>
     LET last == encodes[Len(encodes)] IN
       (last.output # <<>> /\ last.output[1].format = "png") =>
          /\ last.format = "png"
          /\ last.level = 3

(***************************************************************************)
(* The codec adapters: each keeps its codec module in a module-level       *)
(* variable, set by its loader on first use.  Several decode / encode      *)
(* calls reach the loaders; a step is the code between two awaits.         *)
(***************************************************************************)
\* the memo variables: codec of jpeg.ts, webp.ts and avif.ts, pngCodec and
\* oxipngCodec of png.ts
Adapters == {"jpeg", "png", "oxipng", "webp", "avif"}

\* the module each loader imports
ModuleOf ==
  [jpeg |-> "@jsquash/jpeg", png |-> "@jsquash/png", oxipng |-> "@jsquash/oxipng",
   webp |-> "@jsquash/webp", avif |-> "@jsquash/avif"]

\* how many decode / encode calls reach the loaders
MaxCallers == 3

LoaderCallers == 1..MaxCallers

outsideLoader == << callVars, pureVars, concurrentVars, hookVars, limiterVars >>

InitLoader ==
  /\ codec = [a \in Adapters |-> <<>>]
  /\ loads = [a \in Adapters |-> 0]
  /\ users = [u \in LoaderCallers |-> [adapter |-> Null, pc |-> "idle", got |-> <<>>]]
  /\ CallAtRest /\ PureAtRest /\ ConcurrentAtRest /\ HookAtRest /\ LimiterAtRest

\* a decode / encode function calls its loader: if (!codec) the import is
\* started and awaited, otherwise the memo is returned
LoadCodecCalled(u, a) ==
  /\ users[u].pc = "idle"
  /\ IF codec[a] = <<>>
     THEN /\ loads' = [loads EXCEPT ![a] = @ + 1]
          /\ users' = [users EXCEPT ![u] = [adapter |-> a, pc |-> "import", got |-> <<>>]]
     ELSE /\ users' = [users EXCEPT ![u] = [adapter |-> a, pc |-> "returned", got |-> codec[a]]]
          /\ UNCHANGED loads
  /\ UNCHANGED codec
  /\ UNCHANGED outsideLoader

\* the awaited import() settles: the module namespace is assigned to the
\* memo and returned, or the import rejects and the loader rejects with it
ImportSettled(u) ==
  /\ users[u].pc = "import"
  /\ \E ok \in BOOLEAN :
       IF ok
       THEN /\ codec' = [codec EXCEPT ![users[u].adapter] = <<ModuleOf[users[u].adapter]>>]
            /\ users' = [users EXCEPT ![u].pc = "returned",
                                      ![u].got = codec'[users[u].adapter]]
       ELSE /\ users' = [users EXCEPT ![u].pc = "failed"]
            /\ UNCHANGED codec
  /\ UNCHANGED loads
  /\ UNCHANGED outsideLoader

NextLoader ==
  \/ \E u \in LoaderCallers, a \in Adapters : LoadCodecCalled(u, a)
  \/ \E u \in LoaderCallers : ImportSettled(u)

SpecLoader == InitLoader /\ [][NextLoader]_vars

\* the import() calls of adapter a that have not settled
Importing(a) == {u \in LoaderCallers : users[u].adapter = a /\ users[u].pc = "import"}

\* C18: for each codec adapter the load of the codec module is initiated at
\* most once: when two calls make first use concurrently (both reach the
\* loader before either load has resolved) only one load is started, and the
\* calls use the same codec instance.
C18_SingleLoad ==
  \A a \in Adapters :
    /\ Cardinality(Importing(a)) <= 1
    /\ \A u, v \in LoaderCallers :
         (users[u].adapter = a /\ users[v].adapter = a
            /\ users[u].got # <<>> /\ users[v].got # <<>>) => users[u].got = users[v].got

(***************************************************************************)
(* Concurrent calls.  Two compress operations are in flight at once: each  *)
(* is a compressFromBlob call of compress.ts or a message delivered to the *)
(* worker, whose listener starts processImage without awaiting it.  Every  *)
(* call has its own locals; the worker's calls share ctx.postMessage.      *)
(***************************************************************************)
\* the calls in flight, named by the id their request carries
RequestIds == {"r1", "r2"}

\* the options / settings of concurrent calls
ConcurrentOptions ==
  { [mode |-> "custom", quality |-> 45, outputFormat |-> "png"],
    [mode |-> "web", quality |-> 45, outputFormat |-> "avif"] }

\* byte lengths an encoder may produce for them
ConcurrentEncSizes == {17, 30}

\* a call before its first step: the arguments of compressFromBlob, or the
\* message the worker is sent (a message of another type carries nothing
\* the worker reads)
Arguments ==
  { [host |-> "wasm", type |-> "call", blobType |-> t, inputFormat |-> Null,
     size |-> n, options |-> o] :
       t \in {T_image \o T_jpeg, T_image \o T_avif, T_image \o <<"g", "i", "f">>},
       n \in SrcSizes, o \in ConcurrentOptions }
  \cup
  { [host |-> "worker", type |-> "compress", blobType |-> <<>>, inputFormat |-> f,
     size |-> n, options |-> o] :
       f \in {"jpeg", "avif"}, n \in SrcSizes, o \in ConcurrentOptions }
  \cup
  { [host |-> "worker", type |-> "ping", blobType |-> <<>>, inputFormat |-> "jpeg",
     size |-> 0, options |-> o] :
       o \in {[mode |-> "web", quality |-> 45, outputFormat |-> "avif"]} }

\* the locals of a call that has not started
Fresh(a) ==
  [host |-> a.host, type |-> a.type, blobType |-> a.blobType,
   inputFormat |-> a.inputFormat, size |-> a.size, options |-> a.options,
   pc |-> "start", progress |-> <<>>, imageData |-> <<>>, quality |-> <<>>,
   compressedBuffer |-> <<>>, answers |-> <<>>, result |-> <<>>, error |-> <<>>]

outsideConcurrent == << callVars, pureVars, loaderVars, hookVars, limiterVars >>

InitConcurrent ==
  /\ inFlight \in [RequestIds -> {Fresh(a) : a \in Arguments}]
  /\ posted = <<>>
  /\ CallAtRest /\ PureAtRest /\ LoaderAtRest /\ HookAtRest /\ LimiterAtRest

\* a thrown Error with a message, and a thrown value that is no Error
Err(message) == [isError |-> TRUE, message |-> message]

NonError == [isError |-> FALSE, message |-> ""]

\* what a decoder of format f may answer: an image, a throw, or (the AVIF
\* codec) null
DecoderAnswers(f) ==
  { [kind |-> "ok", thrown |-> <<>>, size |-> 0],
    [kind |-> "throw", thrown |-> <<Err("decode failed")>>, size |-> 0],
    [kind |-> "throw", thrown |-> <<NonError>>, size |-> 0] }
  \cup (IF f = "avif" THEN { [kind |-> "null", thrown |-> <<>>, size |-> 0] } ELSE {})

\* what the decode function of the adapter throws on that answer: decodeAvif
\* turns null into an Error, a throw of the codec passes through
DecodeThrows(answer) ==
  IF answer.kind = "null"
  THEN <<Err("AVIF decode returned null - corrupt or unsupported image")>>
  ELSE answer.thrown

\* what an encoder may answer: a buffer of some length, or a throw
EncoderAnswers ==
  { [kind |-> "ok", thrown |-> <<>>, size |-> n] : n \in ConcurrentEncSizes }
  \cup { [kind |-> "throw", thrown |-> <<Err("encode failed")>>, size |-> 0],
         [kind |-> "throw", thrown |-> <<NonError>>, size |-> 0] }

\* the ImageData a decode of call id's bytes gives
ImageDataOf(id) == [raster |-> id]

\* the ArrayBuffer an encoder returns: its bytes are the encoding of the
\* raster in the format and at the quality it was called with
EncodedBuffer(imageData, format, q, n) ==
  [bytes |-> [raster |-> imageData.raster, format |-> format, quality |-> q],
   size |-> n, detached |-> FALSE]

\* ArrayBuffer.prototype.byteLength: 0 once the buffer is detached
byteLengthOf(buffer) == IF buffer.detached THEN 0 ELSE buffer.size

(***************************************************************************)
(* compress.ts compressFromBlob, one copy of the locals per call           *)
(***************************************************************************)
\* up to the await of blob.arrayBuffer() in decodeFromBlob
InlineCalled(id) ==
  /\ inFlight[id].host = "wasm" /\ inFlight[id].pc = "start"
  /\ inFlight' = [inFlight EXCEPT ![id].progress = Append(@, 5), ![id].pc = "read"]
  /\ UNCHANGED posted
  /\ UNCHANGED outsideConcurrent

\* decodeFromBlob, from the buffer to the await of the decoder
InlineRead(id) ==
  /\ inFlight[id].host = "wasm" /\ inFlight[id].pc = "read"
  /\ inFlight' =
       IF detectFormat(inFlight[id].blobType) = Null
       THEN [inFlight EXCEPT ![id].error = <<Err("Unsupported image format")>>,
                             ![id].pc = "failed"]
       ELSE [inFlight EXCEPT ![id].pc = "decode"]
  /\ UNCHANGED posted
  /\ UNCHANGED outsideConcurrent

\* InlineDecoded with a decodeAvif that hands the codec's null on as the image
InlineDecodedNullPasses(id) ==
  /\ inFlight[id].host = "wasm" /\ inFlight[id].pc = "decode"
  /\ \E d \in DecoderAnswers(detectFormat(inFlight[id].blobType)) :
       inFlight' =
         IF d.kind = "throw"
         THEN [inFlight EXCEPT ![id].answers = Append(@, d),
                               ![id].error = DecodeThrows(d),
                               ![id].pc = "failed"]
         ELSE [inFlight EXCEPT ![id].answers = Append(@, d),
                               ![id].imageData = <<ImageDataOf(id)>>,
                               ![id].progress = Append(@, 40),
                               ![id].quality =
                                  <<getQuality(inFlight[id].options.mode,
                                               inFlight[id].options.outputFormat,
                                               inFlight[id].options.quality)>>,
                               ![id].pc = "encode"]
  /\ UNCHANGED posted
  /\ UNCHANGED outsideConcurrent

\* from the decoder's answer to the await of encode(...)
InlineDecoded(id) ==
  /\ inFlight[id].host = "wasm" /\ inFlight[id].pc = "decode"
  /\ \E d \in DecoderAnswers(detectFormat(inFlight[id].blobType)) :
       inFlight' =
         IF d.kind # "ok"
         THEN [inFlight EXCEPT ![id].answers = Append(@, d),
                               ![id].error = DecodeThrows(d),
                               ![id].pc = "failed"]
         ELSE [inFlight EXCEPT ![id].answers = Append(@, d),
                               ![id].imageData = <<ImageDataOf(id)>>,
                               ![id].progress = Append(@, 40),
                               ![id].quality =
                                  <<getQuality(inFlight[id].options.mode,
                                               inFlight[id].options.outputFormat,
                                               inFlight[id].options.quality)>>,
                               ![id].pc = "encode"]
  /\ UNCHANGED posted
  /\ UNCHANGED outsideConcurrent

\* from the encoder's answer to the return
InlineEncoded(id) ==
  /\ inFlight[id].host = "wasm" /\ inFlight[id].pc = "encode"
  /\ \E b \in EncoderAnswers :
       inFlight' =
         IF b.kind # "ok"
         THEN [inFlight EXCEPT ![id].answers = Append(@, b),
                               ![id].error = b.thrown,
                               ![id].pc = "failed"]
         ELSE LET c == inFlight[id]
                  compressedBuffer ==
                    EncodedBuffer(c.imageData[1], c.options.outputFormat,
                                  c.quality[1], b.size)
              IN  [inFlight EXCEPT
                     ![id].answers = Append(@, b),
                     ![id].compressedBuffer = <<compressedBuffer>>,
                     ![id].progress = @ \o <<90, 100>>,
                     ![id].result =
                        << [buffer |-> compressedBuffer,
                            originalSize |-> c.size,
                            compressedSize |-> byteLengthOf(compressedBuffer),
                            savings |-> savingsOf(c.size, byteLengthOf(compressedBuffer))] >>,
                     ![id].pc = "done"]
  /\ UNCHANGED posted
  /\ UNCHANGED outsideConcurrent

(***************************************************************************)
(* worker.ts: the listener and processImage, one copy of the locals per    *)
(* request                                                                 *)
(***************************************************************************)
\* a message as ctx.postMessage is given it, with its transfer list (the
\* buffers named by the request that owns them)
Message(type, id, p, buffer, origSize, compSize, err, transfer) ==
  [type |-> type, id |-> id, progress |-> p, buffer |-> buffer,
   originalSize |-> origSize, compressedSize |-> compSize, error |-> err,
   transfer |-> transfer]

\* the sender's buffer (named ref) once postMessage returned: a buffer in the
\* transfer list is detached, any other is cloned and stays as it was
AfterPost(buffer, ref, transfer) ==
  IF ref \in transfer THEN [buffer EXCEPT !.detached = TRUE] ELSE buffer

\* sendProgress with the id of the message posted last, as if the id were
\* kept in a variable of the module
sendProgressCurrent(id, p) ==
  Message("progress",
          IF posted = <<>> THEN id ELSE posted[Len(posted)].id,
          <<p>>, <<>>, <<>>, <<>>, <<>>, {})

\* sendProgress(id, progress): the message it posts
sendProgress(id, p) ==
  Message("progress", id, <<p>>, <<>>, <<>>, <<>>, <<>>, {})

\* the message the catch block posts for a caught err
ErrorResponse(id, err) ==
  Message("error", id, <<>>, <<>>, <<>>, <<>>,
          <<IF err.isError THEN err.message ELSE "Unknown compression error">>, {})

\* the listener: a "compress" message starts processImage, which runs up
\* to the await of decodeBuffer; any other message is dropped
ListenerMessage(id) ==
  /\ inFlight[id].host = "worker" /\ inFlight[id].pc = "start"
  /\ IF inFlight[id].type = "compress"
     THEN /\ posted' = Append(posted, sendProgress(id, 5))
          /\ inFlight' = [inFlight EXCEPT ![id].pc = "decode"]
     ELSE /\ inFlight' = [inFlight EXCEPT ![id].pc = "ignored"]
          /\ UNCHANGED posted
  /\ UNCHANGED outsideConcurrent

\* ProcessImageDecoded with a catch block that posts nothing
ProcessImageDecodedSilent(id) ==
  /\ inFlight[id].host = "worker" /\ inFlight[id].pc = "decode"
  /\ \E d \in DecoderAnswers(inFlight[id].inputFormat) :
       IF d.kind # "ok"
       THEN /\ inFlight' = [inFlight EXCEPT ![id].answers = Append(@, d),
                                            ![id].pc = "failed"]
            /\ UNCHANGED posted
       ELSE /\ inFlight' =
                 [inFlight EXCEPT
                    ![id].answers = Append(@, d),
                    ![id].imageData = <<ImageDataOf(id)>>,
                    ![id].quality =
                       <<getQualityForSettings(
                           [mode |-> inFlight[id].options.mode,
                            quality |-> inFlight[id].options.quality,
                            format |-> inFlight[id].options.outputFormat])>>,
                    ![id].pc = "encode"]
            /\ posted' = posted \o <<sendProgress(id, 30), sendProgress(id, 35)>>
  /\ UNCHANGED outsideConcurrent

\* processImage, from the decoder's answer to the await of the encoder in
\* encodeBuffer, or to the "error" message of the catch block
ProcessImageDecoded(id) ==
  /\ inFlight[id].host = "worker" /\ inFlight[id].pc = "decode"
  /\ \E d \in DecoderAnswers(inFlight[id].inputFormat) :
       IF d.kind # "ok"
       THEN /\ inFlight' = [inFlight EXCEPT ![id].answers = Append(@, d),
                                            ![id].pc = "failed"]
            /\ posted' = Append(posted, ErrorResponse(id, DecodeThrows(d)[1]))
       ELSE /\ inFlight' =
                 [inFlight EXCEPT
                    ![id].answers = Append(@, d),
                    ![id].imageData = <<ImageDataOf(id)>>,
                    ![id].quality =
                       <<getQualityForSettings(
                           [mode |-> inFlight[id].options.mode,
                            quality |-> inFlight[id].options.quality,
                            format |-> inFlight[id].options.outputFormat])>>,
                    ![id].pc = "encode"]
            /\ posted' = posted \o <<sendProgress(id, 30), sendProgress(id, 35)>>
  /\ UNCHANGED outsideConcurrent

\* ProcessImageEncoded with ctx.postMessage(response) and no transfer list:
\* the buffer is cloned
ProcessImageEncodedCopy(id) ==
  /\ inFlight[id].host = "worker" /\ inFlight[id].pc = "encode"
  /\ \E b \in EncoderAnswers :
       IF b.kind # "ok"
       THEN /\ inFlight' = [inFlight EXCEPT ![id].answers = Append(@, b),
                                            ![id].pc = "failed"]
            /\ posted' = Append(posted, ErrorResponse(id, b.thrown[1]))
       ELSE LET c == inFlight[id]
                compressedBuffer ==
                  EncodedBuffer(c.imageData[1], c.options.outputFormat,
                                c.quality[1], b.size)
                response ==
                  Message("result", id, <<>>, <<compressedBuffer>>, <<c.size>>,
                          <<byteLengthOf(compressedBuffer)>>, <<>>, {})
            IN  /\ posted' = posted \o <<sendProgress(id, 90), response>>
                /\ inFlight' =
                     [inFlight EXCEPT
                        ![id].answers = Append(@, b),
                        ![id].compressedBuffer =
                           <<AfterPost(compressedBuffer, id, response.transfer)>>,
                        ![id].pc = "done"]
  /\ UNCHANGED outsideConcurrent

\* processImage, from the encoder's answer to the "result" message, posted
\* with [compressedBuffer] as transfer list (which detaches the worker's
\* buffer), or to the "error" message of the catch block
ProcessImageEncoded(id) ==
  /\ inFlight[id].host = "worker" /\ inFlight[id].pc = "encode"
  /\ \E b \in EncoderAnswers :
       IF b.kind # "ok"
       THEN /\ inFlight' = [inFlight EXCEPT ![id].answers = Append(@, b),
                                            ![id].pc = "failed"]
            /\ posted' = Append(posted, ErrorResponse(id, b.thrown[1]))
       ELSE LET c == inFlight[id]
                compressedBuffer ==
                  EncodedBuffer(c.imageData[1], c.options.outputFormat,
                                c.quality[1], b.size)
                response ==
                  Message("result", id, <<>>, <<compressedBuffer>>, <<c.size>>,
                          <<byteLengthOf(compressedBuffer)>>, <<>>, {id})
            IN  /\ posted' = posted \o <<sendProgress(id, 90), response>>
                /\ inFlight' =
                     [inFlight EXCEPT
                        ![id].answers = Append(@, b),
                        ![id].compressedBuffer =
                           <<AfterPost(compressedBuffer, id, response.transfer)>>,
                        ![id].pc = "done"]
  /\ UNCHANGED outsideConcurrent

NextConcurrent ==
  \E id \in RequestIds :
    \/ InlineCalled(id)
    \/ InlineRead(id)
    \/ InlineDecoded(id)
    \/ InlineEncoded(id)
    \/ ListenerMessage(id)
    \/ ProcessImageDecoded(id)
    \/ ProcessImageEncoded(id)

SpecConcurrent == InitConcurrent /\ [][NextConcurrent]_vars

\* the terminal messages posted for request id
Terminal(id) ==
  {k \in 1..Len(posted) : posted[k].id = id /\ posted[k].type \in {"result", "error"}}

Settled(id) == inFlight[id].pc \in {"done", "failed"}

\* C14: given the same input bytes, input format and options and the same
\* codec outcomes, compressFromBlob of compress.ts and processImage of the
\* worker reach the same outcome: both succeed with identical encoded bytes,
\* originalSize and compressedSize, or both fail with the same error message.
C14_HostsAgree ==
  \A a, b \in RequestIds :
    LET x == inFlight[a]
        y == inFlight[b]
    IN  ( /\ x.host = "wasm" /\ y.host = "worker" /\ y.type = "compress"
          /\ x.size = y.size
          /\ detectFormat(x.blobType) = y.inputFormat
          /\ x.options = y.options
          /\ Settled(a) /\ Settled(b)
          /\ x.answers = y.answers )
        => \E k \in Terminal(b) :
             LET m == posted[k] IN
               \/ /\ x.result # <<>> /\ m.type = "result"
                  /\ x.result[1].buffer.bytes.format = m.buffer[1].bytes.format
                  /\ x.result[1].buffer.bytes.quality = m.buffer[1].bytes.quality
                  /\ x.result[1].buffer.size = m.buffer[1].size
                  /\ x.result[1].originalSize = m.originalSize[1]
                  /\ x.result[1].compressedSize = m.compressedSize[1]
               \/ /\ x.error # <<>> /\ m.type = "error"
                  /\ x.error[1].isError
                  /\ x.error[1].message = m.error[1]

\* the "compress" requests the worker was sent
CompressRequests ==
  {id \in RequestIds : inFlight[id].host = "worker" /\ inFlight[id].type = "compress"}

\* C16: for every "compress" request the worker posts exactly one terminal
\* message, a "result" or an "error" and never both, carrying the request's
\* id; every "progress" message of the request carries that id and is posted
\* before the terminal message; every posted message is of kind progress,
\* result or error; also with several requests in flight.
C16_WorkerProtocol ==
  /\ \A k \in 1..Len(posted) :
       /\ posted[k].type \in {"progress", "result", "error"}
       /\ posted[k].id \in CompressRequests
  /\ \A id \in CompressRequests :
       /\ Cardinality(Terminal(id)) <= 1
       /\ Settled(id) <=> Cardinality(Terminal(id)) = 1
       /\ \A k \in Terminal(id) :
            /\ posted[k].type = "result" <=> inFlight[id].pc = "done"
            /\ \A j \in 1..Len(posted) :
                 (posted[j].id = id /\ j # k) =>
                    (j < k /\ posted[j].type = "progress")

\* two requests were in flight together, their messages interleaved, and one
\* ended with a result and the other with an error
C16_Witness ==
  /\ CompressRequests = RequestIds
  /\ \A id \in RequestIds : Settled(id)
  /\ \E i, j, k \in 1..Len(posted) :
       /\ i < j /\ j < k
       /\ posted[i].id = "r1" /\ posted[j].id = "r2" /\ posted[k].id = "r1"
  /\ \E k \in Terminal("r1") : posted[k].type = "result"
  /\ \E k \in Terminal("r2") : posted[k].type = "error"

\* C17: the worker hands the encoded buffer back by transfer, not by copy:
\* the buffer of every "result" message is in the transfer list of its
\* postMessage, after posting the worker holds no usable copy of it (its
\* buffer is detached, of byte length 0), and compressedSize, computed
\* before the transfer, is the byte length of the buffer the caller receives.
C17_BufferTransferred ==
  \A k \in 1..Len(posted) :
    posted[k].type = "result" =>
       LET m == posted[k]
           held == inFlight[m.id].compressedBuffer
       IN  /\ m.id \in m.transfer
           /\ held # <<>>
           /\ held[1].detached
           /\ byteLengthOf(held[1]) = 0
           /\ ~m.buffer[1].detached
           /\ m.compressedSize[1] = byteLengthOf(m.buffer[1])
           /\ m.compressedSize[1] \in ConcurrentEncSizes

\* both requests ended with a result, of different byte lengths
C17_Witness ==
  /\ \A id \in RequestIds : \E k \in Terminal(id) : posted[k].type = "result"
  /\ \E j, k \in 1..Len(posted) :
       /\ posted[j].type = "result" /\ posted[k].type = "result"
       /\ posted[j].compressedSize # posted[k].compressedSize

\* the messages posted with the id of request id, in order, as the caller
\* that sent the request sees them
Mine(id) == SelectSeq(posted, LAMBDA m : m.id = id)

\* the encoder output call id is owed: its own raster, encoded in the format
\* and at the quality of its own options
OwnBytes(id) ==
  [raster |-> id, format |-> inFlight[id].options.outputFormat,
   quality |-> IF inFlight[id].options.mode = "custom"
               THEN inFlight[id].options.quality
               ELSE PolicyTable[inFlight[id].options.mode][inFlight[id].options.outputFormat]]

\* what the call throws, given the answers the call itself received
OwnThrown(id) ==
  LET c == inFlight[id]
      a == c.answers[Len(c.answers)]
  IN  IF a.kind = "null"
      THEN Err("AVIF decode returned null - corrupt or unsupported image")
      ELSE a.thrown[1]

\* the progress values of a call that ran alone and stands where call id
\* stands
AloneProgress(id) ==
  LET c == inFlight[id]
      first == <<5>>
      decoded == IF c.host = "wasm" THEN <<5, 40>> ELSE <<5, 30, 35>>
      encoded == IF c.host = "wasm" THEN <<5, 40, 90, 100>> ELSE <<5, 30, 35, 90>>
  IN  IF c.pc \in {"start", "ignored"} THEN <<>>
      ELSE IF c.pc = "done" THEN encoded
      ELSE IF c.imageData # <<>> THEN decoded
      ELSE first

\* C19: concurrent compressions are independent: in any interleaving of two
\* compressFromBlob calls or of two requests in the same worker, each call's
\* progress sequence, result, sizes and error are what the call yields alone
\* on its own arguments and codec answers, and nothing of the other call
\* (raster, quality, buffer, id) is in them.
C19_Independent ==
  \A id \in RequestIds :
    LET c == inFlight[id] IN
      IF c.host = "wasm"
      THEN /\ c.progress = AloneProgress(id)
           /\ Mine(id) = <<>>
           /\ c.result # <<>> <=> c.pc = "done"
           /\ c.result # <<>> =>
                /\ c.result[1].buffer.bytes = OwnBytes(id)
                /\ c.result[1].buffer.size = c.answers[Len(c.answers)].size
                /\ c.result[1].originalSize = c.size
                /\ c.result[1].compressedSize = c.answers[Len(c.answers)].size
           /\ c.error # <<>> <=> c.pc = "failed"
           /\ c.error # <<>> =>
                c.error[1] = IF c.answers = <<>> THEN Err("Unsupported image format")
                             ELSE OwnThrown(id)
      ELSE LET mine == Mine(id)
               n == Len(AloneProgress(id))
           IN  /\ Len(mine) = n + (IF Settled(id) THEN 1 ELSE 0)
               /\ \A k \in 1..n :
                    /\ k <= Len(mine)
                    /\ mine[k].type = "progress"
                    /\ mine[k].progress = <<AloneProgress(id)[k]>>
               /\ c.pc = "done" =>
                    /\ Len(mine) = n + 1
                    /\ mine[n + 1].type = "result"
                    /\ mine[n + 1].buffer[1].bytes = OwnBytes(id)
                    /\ mine[n + 1].buffer[1].size = c.answers[Len(c.answers)].size
                    /\ mine[n + 1].originalSize = <<c.size>>
                    /\ mine[n + 1].compressedSize = <<c.answers[Len(c.answers)].size>>
               /\ c.pc = "failed" =>
                    /\ Len(mine) = n + 1
                    /\ mine[n + 1].type = "error"
                    /\ mine[n + 1].error =
                         <<IF OwnThrown(id).isError THEN OwnThrown(id).message
                           ELSE "Unknown compression error">>

\* two requests with different settings and buffers of different lengths
\* ran in the same worker, their messages interleaved, and both got a result
C19_Witness ==
  /\ CompressRequests = RequestIds
  /\ inFlight["r1"].options # inFlight["r2"].options
  /\ inFlight["r1"].size # inFlight["r2"].size
  /\ inFlight["r1"].pc = "done" /\ inFlight["r2"].pc = "done"
  /\ \E i, j, k \in 1..Len(posted) :
       /\ i < j /\ j < k
       /\ posted[i].id = "r1" /\ posted[j].id = "r2" /\ posted[k].id = "r1"

\* the AVIF codec answered call id's decode with null
NullDecode(id) ==
  /\ inFlight[id].answers # <<>>
  /\ inFlight[id].answers[1].kind = "null"

\* C21: decodeAvif never returns a null or empty image: when the AVIF
\* decoder yields null it throws an error, and a compress call whose AVIF
\* decode fails this way rejects with that error (the worker: posts it)
\* without attempting any encode.
C21_AvifNullThrows ==
  \A id \in RequestIds :
    NullDecode(id) =>
       LET c == inFlight[id] IN
         /\ c.pc = "failed"
         /\ c.imageData = <<>>
         /\ Len(c.answers) = 1
         /\ c.compressedBuffer = <<>> /\ c.result = <<>>
         /\ IF c.host = "wasm"
            THEN c.error =
                   <<Err("AVIF decode returned null - corrupt or unsupported image")>>
            ELSE \E k \in Terminal(id) :
                   /\ posted[k].type = "error"
                   /\ posted[k].error =
                        <<"AVIF decode returned null - corrupt or unsupported image">>

\* an inline call and a worker request both had their AVIF decode answered
\* with null
C21_Witness ==
  /\ inFlight["r1"].host = "wasm" /\ NullDecode("r1")
  /\ inFlight["r2"].host = "worker" /\ NullDecode("r2")

\* C22: when the fetch answers with a non-success status, compressFromUrl
\* rejects with a fetch error having reported only progress 5; no format
\* detection, decode, image load or encode follows and the fetch is not
\* retried.  No stage starts before the previous one succeeded: an encoder
\* is never called unless the decode (image load) completed.
C22_FetchFailureStops ==
  /\ error = <<"Failed to fetch image: status">> =>
       /\ entry = "url" /\ pc = "failed"
       /\ progress = <<5>>
       /\ stages = {}
       /\ encodes = <<>>
       /\ result = <<>>
       /\ urlLoads = 1
  /\ encodes # <<>> => "decode" \in stages
  /\ (entry = "url" /\ stages # {}) => "fetch" \in stages

\* the canvas compressFromUrl rejected on a non-success status
C22_Witness ==
  /\ host = "canvas" /\ entry = "url"
  /\ error = <<"Failed to fetch image: status">>
  /\ progress = <<5>>

\* C23: the MIME type of the blob in a returned CompressionResult names the
\* format the returned bytes were encoded in, on every path: requested
\* format produced, AVIF downgraded to WebP, JPEG fallback, an encoder that
\* substituted another format.
C23_TypeNamesFormat ==
  (Inline /\ Returned) =>
     /\ result[1].blob.type = getMimeType(result[1].blob.format)
     /\ result[1].blob.format = result[1].buffer.format
     /\ result[1].buffer.format = encodes[Len(encodes)].output[1].format

\* AVIF was requested from the canvas variant, the WebP re-encode threw, and
\* the result is the JPEG fallback, typed image/jpeg
C23_Witness ==
  /\ host = "canvas" /\ Returned
  /\ options.outputFormat = "avif"
  /\ Len(encodes) = 3
  /\ result[1].blob.type = T_image \o T_jpeg

\* the quality estimateSize is to use: the table value, or for mode custom
\* the customQuality argument, 80 where the caller passed none
EstimateQuality ==
  IF args.mode = "custom"
  THEN (IF args.customQuality = <<>> THEN 80 ELSE args.customQuality[1])
  ELSE PolicyTable[args.mode][args.format]

\* min(width * height * bpp * qualityFactor, originalSize) in units of
\* 1/100000 byte, exactly: bpp in hundredths, qualityFactor in thousandths
EstimateExact ==
  LET bpp100 == [png |-> 200, jpeg |-> 40, webp |-> 25, avif |-> 15]
      qf1000 == IF args.format = "png" THEN 1000 ELSE 500 + 8 * EstimateQuality
      est    == args.width * args.height * bpp100[args.format] * qf1000
      cap    == args.originalSize * 100000
  IN  IF est < cap THEN est ELSE cap

\* the same value as a Number
EstimateNumber ==
  LET bpp == [png |-> Literal(2, 1), jpeg |-> Literal(2, 5),
              webp |-> Literal(1, 4), avif |-> Literal(3, 20)]
      qf  == IF args.format = "png" THEN FlOfInt(1)
             ELSE FlPlus(Literal(1, 2),
                         FlMul(FlDiv(EstimateQuality, 100), Literal(4, 5)))
  IN  MathMin(FlMul(FlMul(FlOfInt(args.width * args.height), bpp[args.format]), qf),
              FlOfInt(args.originalSize))

\* C24: estimateSize returns min(width * height * bpp(format) *
\* qualityFactor, originalSize), with bpp 2.0 / 0.4 / 0.25 / 0.15 for png /
\* jpeg / webp / avif, qualityFactor 1.0 for png and 0.5 + (quality / 100) *
\* 0.8 otherwise, quality being the table value for smart / maximum / web
\* and customQuality (default 80) for custom; both copies return the same.
C24_EstimateFormula ==
  (args.fn = "estimateSize" /\ ret # <<>>) =>
     /\ ret[1].compress = EstimateNumber
     /\ ret[1].native = ret[1].compress
     /\ MathRound(ret[1].compress) = (2 * EstimateExact + 100000) \div 200000

\* a 3 x 40 JPEG in mode custom without a customQuality: quality 80 gives
\* 120 * 0.4 * 1.14, which is below the original 1000 bytes
C24_Witness ==
  /\ args.fn = "estimateSize"
  /\ args.originalSize = 1000 /\ args.width = 3 /\ args.height = 40
  /\ args.format = "jpeg" /\ args.mode = "custom" /\ args.customQuality = <<>>
  /\ ret # <<>>
  /\ MathRound(ret[1].native) = 55

\* C25: in compressFromUrl the image that is encoded comes from the bytes
\* whose length is originalSize: the URL is requested exactly once per call
\* that got past the fetch, and never a second time.
C25_UrlLoadedOnce ==
  /\ entry = "url" => urlLoads <= 1
  /\ (entry = "url" /\ encodes # <<>>) => urlLoads = 1

\* the canvas compressFromBlob
NativeBlob == host = "canvas" /\ entry = "blob"

\* C29: the canvas compressFromBlob revokes the object URL it created
\* exactly once on every exit path (success, failed image load, failure of
\* every encode attempt), and the URL is live until the image load and all
\* encode attempts are over; no other function has an object URL.
C29_ObjectUrlRevoked ==
  /\ NativeBlob =>
       /\ pc = "start" => objectUrl = "none"
       /\ pc \in {"load", "encode", "buffer"} => objectUrl = "live"
       /\ pc \in {"done", "failed"} => objectUrl = "revoked"
       /\ objectUrl = "revoked" =>
            \A i \in 1..Len(encodes) : encodes[i].outcome # "pending"
  /\ ~NativeBlob => objectUrl = "none"

\* the requested AVIF encode threw and so did the JPEG fallback: the call
\* rejected and the URL is revoked
C29_Witness ==
  /\ NativeBlob /\ pc = "failed"
  /\ options.outputFormat = "avif"
  /\ Len(encodes) = 2 /\ encodes[2].role = "fallback"
  /\ error = <<"Failed to encode as jpeg">>
  /\ objectUrl = "revoked"

(***************************************************************************)
(* use-compression and export-panel: the hook's four state cells under the *)
(* panel that drives it.  compress runs compressFromUrl of compress-native;*)
(* a step is one synchronous segment of a call, or one event handler of    *)
(* the panel together with the effect its re-render runs.  The 4K          *)
(* resolution is left out: it goes to the server-side export and starts no *)
(* compression.                                                            *)
(***************************************************************************)
PanelFormats == {"webp", "avif"}

PanelQualities == {60, 80}

PanelResolutions == {"2K", "web"}

PanelModes == {"smart", "custom"}

MaxCompressions == 2

\* the aspectRatio prop, and aspectRatio.replace(":", "x")
AspectRatio == <<"1", "6", ":", "9">>

RECURSIVE replaceFirst(_, _, _)
replaceFirst(s, c, by) ==
  IF s = <<>> THEN <<>>
  ELSE IF Head(s) = c THEN <<by>> \o Tail(s)
  ELSE <<Head(s)>> \o replaceFirst(Tail(s), c, by)

\* the extension that names a format
ExtensionOf(format) == IF format = "jpeg" THEN "jpg" ELSE format

outsideHook == << callVars, pureVars, concurrentVars, loaderVars, limiterVars >>

\* useState initial values of the hook and of the panel
InitHook ==
  /\ hook = [isCompressing |-> FALSE, progress |-> 0, error |-> <<>>, result |-> <<>>]
  /\ panel = [format |-> "webp", quality |-> 80, selectedResolution |-> "2K",
              compressionMode |-> "smart"]
  /\ compressions = <<>>
  /\ downloads = <<>>
  /\ CallAtRest /\ PureAtRest /\ ConcurrentAtRest /\ LoaderAtRest /\ LimiterAtRest

\* reset of the hook
reset == [isCompressing |-> FALSE, progress |-> 0, error |-> <<>>, result |-> <<>>]

\* every call started so far has been followed by a reset or a newer call
Supersede(cs) == [i \in DOMAIN cs |-> [cs[i] EXCEPT !.superseded = TRUE]]

\* a setter of the panel is given a new value; the re-render runs the
\* effect whose dependencies are the four settings, which calls reset
SettingChanged ==
  /\ \E f \in PanelFormats, q \in PanelQualities, r \in PanelResolutions,
        m \in PanelModes :
       LET next == [format |-> f, quality |-> q, selectedResolution |-> r,
                    compressionMode |-> m]
       IN  /\ Cardinality({k \in DOMAIN panel : panel[k] # next[k]}) = 1
           /\ panel' = next
  /\ hook' = reset
  /\ compressions' = Supersede(compressions)
  /\ UNCHANGED downloads
  /\ UNCHANGED outsideHook

\* the download button, which is disabled while isProcessing: handleDownload
\* up to the await of compress, and compress up to the await of the import
HandleDownload ==
  /\ ~hook.isCompressing
  /\ Len(compressions) < MaxCompressions
  /\ LET web          == panel.selectedResolution = "web"
         outputFormat == IF web THEN "webp" ELSE panel.format
         outputQuality == IF web THEN 72 ELSE panel.quality
         mode         == IF web THEN "web" ELSE panel.compressionMode
         filename     == [ratio |-> replaceFirst(AspectRatio, ":", "x"),
                          resolution |-> panel.selectedResolution,
                          extension |-> IF outputFormat = "jpeg" THEN "jpg"
                                        ELSE outputFormat]
     IN  compressions' = Append(Supersede(compressions),
           [options |-> [mode |-> mode, quality |-> outputQuality,
                         outputFormat |-> outputFormat],
            filename |-> filename, pc |-> "import", compressedBlob |-> <<>>,
            superseded |-> FALSE])
  /\ hook' = [isCompressing |-> TRUE, progress |-> 0, error |-> <<>>, result |-> <<>>]
  /\ UNCHANGED << panel, downloads >>
  /\ UNCHANGED outsideHook

\* catch and finally of compress, after which handleDownload sees null
CompressCaught(i, message) ==
  /\ hook' = [hook EXCEPT !.error = <<message>>, !.isCompressing = FALSE]
  /\ compressions' = [compressions EXCEPT ![i].pc = "failed"]
  /\ UNCHANGED downloads

\* the callback given to compressFromUrl: (p) => setProgress(p)
setProgress(i, p, pc2) ==
  /\ hook' = [hook EXCEPT !.progress = p]
  /\ compressions' = [compressions EXCEPT ![i].pc = pc2]
  /\ UNCHANGED downloads

\* the import settled: compressFromUrl runs up to the await of fetch
CompressImported(i) ==
  /\ i \in DOMAIN compressions /\ compressions[i].pc = "import"
  /\ \E ok \in BOOLEAN :
       IF ok THEN setProgress(i, 5, "fetch")
       ELSE CompressCaught(i, "Failed to load module")
  /\ UNCHANGED panel
  /\ UNCHANGED outsideHook

\* the fetch settled: on an ok response, up to the await of loadImage
CompressFetched(i) ==
  /\ i \in DOMAIN compressions /\ compressions[i].pc = "fetch"
  /\ \E ok \in BOOLEAN :
       IF ok THEN setProgress(i, 20, "load")
       ELSE CompressCaught(i, "Failed to fetch image: status")
  /\ UNCHANGED panel
  /\ UNCHANGED outsideHook

\* the image load settled: on success, up to the first encodeWithCanvas
CompressLoaded(i) ==
  /\ i \in DOMAIN compressions /\ compressions[i].pc = "load"
  /\ \E ok \in BOOLEAN :
       IF ok THEN setProgress(i, 40, "encode")
       ELSE CompressCaught(i, "Failed to load image")
  /\ UNCHANGED panel
  /\ UNCHANGED outsideHook

\* the formats compressFromUrl may end up with for a requested format:
\* the first answer unless it is the PNG of a browser without AVIF, then
\* the answer to the WebP encode, and after a throw the JPEG fallback's
CanvasProduces(outputFormat) ==
  LET Kept(S)   == {b \in S : b.kind = "ok"}
      first     == Kept(CanvasEncodeOutcomes(outputFormat))
      downgrade == {b \in first :
                      outputFormat = "avif" /\ ~includes(b.type, T_avif)}
      second    == IF downgrade = {} THEN {}
                   ELSE Kept(CanvasEncodeOutcomes("webp"))
      fallback  == Kept(CanvasEncodeOutcomes("jpeg"))
  IN  {b.format : b \in (first \ downgrade) \cup second \cup fallback}

\* the encode attempts are over: with a blob, up to the await of
\* compressedBlob.arrayBuffer(); without, the JPEG fallback threw
CompressEncoded(i) ==
  /\ i \in DOMAIN compressions /\ compressions[i].pc = "encode"
  /\ \/ \E f \in CanvasProduces(compressions[i].options.outputFormat) :
          /\ hook' = [hook EXCEPT !.progress = 90]
          /\ compressions' = [compressions EXCEPT ![i].pc = "buffer",
                                                  ![i].compressedBlob = <<f>>]
          /\ UNCHANGED downloads
     \/ CompressCaught(i, "Failed to encode as jpeg")
  /\ UNCHANGED panel
  /\ UNCHANGED outsideHook

\* compressFromUrl returns: setResult, setProgress(100), finally; then
\* handleDownload goes on with the result and the filename it built
CompressReturned(i) ==
  /\ i \in DOMAIN compressions /\ compressions[i].pc = "buffer"
  /\ LET compressionResult == [call |-> i, blob |-> compressions[i].compressedBlob[1]]
     IN  /\ hook' = [hook EXCEPT !.result = <<compressionResult>>,
                                 !.progress = 100, !.isCompressing = FALSE]
         /\ downloads' = Append(downloads,
              [blob |-> compressionResult.blob, filename |-> compressions[i].filename])
  /\ compressions' = [compressions EXCEPT ![i].pc = "done"]
  /\ UNCHANGED panel
  /\ UNCHANGED outsideHook

NextHook ==
  \/ SettingChanged
  \/ HandleDownload
  \/ \E i \in 1..MaxCompressions :
       \/ CompressImported(i)
       \/ CompressFetched(i)
       \/ CompressLoaded(i)
       \/ CompressEncoded(i)
       \/ CompressReturned(i)

SpecHook == InitHook /\ [][NextHook]_vars

\* the calls in flight
Running == {i \in DOMAIN compressions : compressions[i].pc \notin {"done", "failed"}}

\* C26: useCompression discards stale results: once reset() was called or
\* a newer compress call started, nothing of an earlier call is written
\* into the hook's state; after reset() the result stays null, the error
\* null and the progress 0 until a new compress call.
C26_StaleDiscarded ==
  /\ hook.result # <<>> => ~compressions[hook.result[1].call].superseded
  /\ (\A i \in DOMAIN compressions : compressions[i].superseded) =>
        (hook.result = <<>> /\ hook.error = <<>> /\ hook.progress = 0)

\* C27: isCompressing is true exactly while at least one compress call
\* started through the hook is in flight, so the download button never
\* starts a compression while another one is running.
C27_CompressingWhileInFlight ==
  /\ hook.isCompressing <=> Running # {}
  /\ Cardinality(Running) <= 1

\* C28: every file the panel downloads carries the extension of the format
\* its blob was actually produced in.
C28_ExtensionOfProduced ==
  \A k \in DOMAIN downloads :
     downloads[k].filename.extension = ExtensionOf(downloads[k].blob)

(***************************************************************************)
(* rate-limit.ts: the sliding-window limiter of the export route.  One     *)
(* behaviour passes the same options on every call; the clock never goes   *)
(* back, and several calls may fall on the same millisecond.               *)
(***************************************************************************)
CLEANUP_INTERVAL == 100

Ips == {"a", "b"}

LimitOptions ==
  { [windowMs |-> 2, maxRequests |-> 1], [windowMs |-> 3, maxRequests |-> 2] }

MaxClock == 5

MaxRateCalls == 4

\* calls made before the behaviour starts: none, or 97 calls of a third
\* address within one millisecond, of which maxRequests were recorded
EarlierCalls == {0, 97}

outsideLimiter == << callVars, pureVars, concurrentVars, loaderVars, hookVars >>

InitLimiter ==
  /\ limit \in LimitOptions
  /\ callCount \in EarlierCalls
  /\ hits = IF callCount = 0 THEN <<>>
            ELSE [i \in {"c"} |-> [k \in 1..limit.maxRequests |-> 0]]
  /\ clock = 0
  /\ verdicts = <<>>
  /\ CallAtRest /\ PureAtRest /\ ConcurrentAtRest /\ LoaderAtRest /\ HookAtRest

\* Date.now() answers a later time
Tick ==
  /\ clock < MaxClock
  /\ clock' = clock + 1
  /\ UNCHANGED << hits, callCount, limit, verdicts >>
  /\ UNCHANGED outsideLimiter

\* evictStaleEntries: the entries whose newest timestamp is before the cutoff
\* are deleted
evictStaleEntries(h, windowMs, now) ==
  LET cutoff == now - windowMs
      stale  == {i \in DOMAIN h : h[i] # <<>> /\ h[i][Len(h[i])] < cutoff}
  IN  [i \in DOMAIN h \ stale |-> h[i]]

\* while (timestamps.length > 0 && timestamps[0] < windowStart) shift()
RECURSIVE shiftOld(_, _)
shiftOld(timestamps, windowStart) ==
  IF timestamps # <<>> /\ Head(timestamps) < windowStart
  THEN shiftOld(Tail(timestamps), windowStart)
  ELSE timestamps

\* Math.max of two integers
MathMax(a, b) == IF a > b THEN a ELSE b

\* rateLimit(ip, limit)
RateLimitCalled(ip) ==
  /\ Len(verdicts) < MaxRateCalls
  /\ LET windowMs    == limit.windowMs
         maxRequests == limit.maxRequests
         now         == clock
         windowStart == now - windowMs
         kept        == IF (callCount + 1) % CLEANUP_INTERVAL = 0
                        THEN evictStaleEntries(hits, windowMs, now) ELSE hits
         timestamps  == shiftOld(IF ip \in DOMAIN kept THEN kept[ip] ELSE <<>>,
                                 windowStart)
         allowed     == Len(timestamps) < maxRequests
         retryAfterMs == IF allowed THEN 0
                         ELSE MathMax(timestamps[1] + windowMs - now, 1)
     IN  /\ callCount' = callCount + 1
         /\ hits' = [i \in DOMAIN kept \cup {ip} |->
                       IF i # ip THEN kept[i]
                       ELSE IF allowed THEN Append(timestamps, now)
                       ELSE timestamps]
         /\ verdicts' = Append(verdicts,
              [ip |-> ip, at |-> now, allowed |-> allowed,
               retryAfterMs |-> retryAfterMs])
  /\ UNCHANGED << clock, limit >>
  /\ UNCHANGED outsideLimiter

NextLimiter ==
  \/ Tick
  \/ \E ip \in Ips : RateLimitCalled(ip)

SpecLimiter == InitLimiter /\ [][NextLimiter]_vars

\* the calls of one address, in order, as indices of verdicts
CallsOf(ip) == {k \in DOMAIN verdicts : verdicts[k].ip = ip}

\* the allowed calls of the address of call k within the closed interval of
\* length windowMs that ends at call k, call k left out
AllowedBefore(k) ==
  {j \in CallsOf(verdicts[k].ip) :
     /\ j < k /\ verdicts[j].allowed
     /\ verdicts[j].at >= verdicts[k].at - limit.windowMs}

\* the call of the same address that follows call k
FollowsOf(k) ==
  {j \in CallsOf(verdicts[k].ip) :
     j > k /\ \A m \in CallsOf(verdicts[k].ip) : m > k => j <= m}

\* never more than maxRequests allowed calls of one address in a closed
\* interval of length windowMs
WindowBound ==
  \A k \in DOMAIN verdicts :
     verdicts[k].allowed => Cardinality(AllowedBefore(k)) + 1 <= limit.maxRequests

\* each outcome follows from the earlier calls of the same address alone
OwnCallsDecide ==
  \A k \in DOMAIN verdicts :
     verdicts[k].allowed <=> Cardinality(AllowedBefore(k)) < limit.maxRequests

\* allowed calls are recorded and return 0; denied calls are not recorded
\* and return at least 1
RecordedIffAllowed ==
  /\ \A k \in DOMAIN verdicts :
        IF verdicts[k].allowed THEN verdicts[k].retryAfterMs = 0
        ELSE verdicts[k].retryAfterMs >= 1
  /\ \A ip \in Ips \cap DOMAIN hits :
        /\ Len(hits[ip]) <= Cardinality({k \in CallsOf(ip) : verdicts[k].allowed})
        /\ \A n \in DOMAIN hits[ip] :
              \E k \in CallsOf(ip) : verdicts[k].allowed /\ verdicts[k].at = hits[ip][n]
  /\ verdicts # <<>> /\ verdicts[Len(verdicts)].allowed =>
        LET v == verdicts[Len(verdicts)] IN hits[v.ip][Len(hits[v.ip])] = v.at

\* retryAfterMs of a denied call is the time until the oldest recorded call
\* leaves the window: the address's next call is allowed exactly if it
\* comes that much later or more
RetryAfterExact ==
  \A k \in DOMAIN verdicts : \A j \in FollowsOf(k) :
     ~verdicts[k].allowed =>
        (verdicts[j].allowed <=>
           verdicts[j].at >= verdicts[k].at + verdicts[k].retryAfterMs)

\* C30: under a clock that never goes back, rateLimit never allows more
\* than maxRequests calls of one address within a closed interval of length
\* windowMs; an allowed call is recorded and returns retryAfterMs 0; a
\* denied call is not recorded and returns a retryAfterMs of at least 1,
\* the time until the oldest recorded call leaves the window; the calls of
\* one address never change the outcome for another.
C30_RateLimit ==
  /\ WindowBound
  /\ RecordedIffAllowed
  /\ RetryAfterExact
  /\ OwnCallsDecide

====
